---- MODULE Spec2Model ----
(***************************************************************************)
(* A model of the coding-harness core: the phase orchestrator loop         *)
(* (agent/core/orchestrator.py) with the state repository                  *)
(* (common/state.py), the checkpoint handlers                              *)
(* (agent/core/checkpoint_handlers.py) and the session runner              *)
(* (agent/core/session_runner.py), and the agent daemon's registry         *)
(* (agent/daemon/server.py).                                               *)
(*                                                                         *)
(* Python's Optional[T] is modelled as a sequence of length at most one:   *)
(* None is <<>>, a value v is <<v>>.                                       *)
(***************************************************************************)
EXTENDS Integers, Sequences, FiniteSets, TLC

None == <<>>

Some(v) == <<v>>

(***************************************************************************)
(* Bounds of the model.                                                    *)
(***************************************************************************)
\* Iterations of the agent loop that the model follows.
MaxIter == 2

\* Checkpoint records the sessions of one run write to the checkpoint log.
MaxCkpt == 2

(***************************************************************************)
(* Program constants and enumerations.                                     *)
(***************************************************************************)
INITIALIZER == "initializer"

CODING == "coding"

MR_CREATION == "mr_creation"

PENDING == "pending"

APPROVED == "approved"

REJECTED == "rejected"

MODIFIED == "modified"

SKIPPED == "skipped"

ISSUE_ENRICHMENT == "issue_enrichment"

REGRESSION_APPROVAL == "regression_approval"

ISSUE_SELECTION == "issue_selection"

MR_PHASE_TRANSITION == "mr_phase_transition"

GITLAB_MILESTONE_FILE == "gitlab"

FILE_MILESTONE_FILE == "file"

\* The scope keys of the checkpoint log, in the order the JSON object lists them.
Scopes == <<"global", "issue">>

VARIABLES
    \* ---- the run directory (files other processes also read and write)
    workspace_file,   \* .workspace_info.json: None (missing or malformed) or the document
    milestone_file,   \* the two milestone files: name -> None or the document
    checkpoint_log,   \* .hitl_checkpoint_log.json: scope key -> list of records
    \* ---- the orchestrator process
    config,           \* AgentConfig
    stop_event,       \* AgentEvents.stop_event: None, or whether the event is set
    pause_event,      \* AgentEvents.pause_event: None, or whether it is set (cleared = paused)
    pc,               \* position of _run_agent_loop
    iteration,        \* the loop counter
    state,            \* the AgentState loaded at the top of the iteration
    session_type,     \* the phase chosen for the session
    status,           \* the session outcome
    checkpoint,       \* the record _wait_for_approval loaded last (its checkpoint_id)
    \* ---- a call of a function of the package from outside the loop
    call,             \* the arguments of the call
    returned,         \* None before the call returns, then the returned value
    \* ---- the agent daemon (agent/daemon/server.py)
    daemon_up,        \* the daemon process is alive
    agents,           \* AgentDaemon._agents: agent_id -> AgentProcess
    state_file,       \* daemon_state.json: None (absent, unparsable) or agent_id -> stored agent
    spec_exists,      \* the spec file the configs name exists on disk
    before_kill,      \* while the daemon is dead: the registry it had when it ended
    response,         \* the last response line a connection was sent, None before any
    waiting,          \* caller -> None or the _stop_agent call it is suspended in
    orphans,          \* the agent ids with a live child that nothing refers to
    monitor_tasks,    \* the agent ids whose monitor task is running
    shutdown_task,    \* None or the position of the shutdown task
    socket_path,      \* None or the daemon whose socket is bound at SOCKET_PATH
    second_up         \* a second daemon process is alive

ovars == <<workspace_file, milestone_file, checkpoint_log, config, stop_event,
           pause_event, pc, iteration, state, session_type, status, checkpoint>>

fvars == <<call, returned>>

dvars == <<daemon_up, agents, state_file, spec_exists, before_kill, response, waiting,
           orphans, monitor_tasks, shutdown_task, socket_path, second_up>>

vars == <<ovars, fvars, dvars>>

(***************************************************************************)
(* common/state.py: the documents and the state repository.                *)
(***************************************************************************)
\* MilestoneState.from_dict applied to the documents a run's milestone file
\* goes through: created by the initializer, initialized, all issues closed,
\* milestone closed.
MilestoneState(i, a, m) ==
    [initialized |-> i, all_issues_closed |-> a, milestone_closed |-> m]

MilestoneLifecycle ==
    << MilestoneState(FALSE, FALSE, FALSE), MilestoneState(TRUE, FALSE, FALSE),
       MilestoneState(TRUE, TRUE, FALSE), MilestoneState(TRUE, TRUE, TRUE) >>

WorkspaceInfo(f, a) == [file_only_mode |-> f, auto_accept |-> a]

AgentState(m, w, l) == [milestone |-> m, workspace |-> w, checkpoint_log |-> l]

is_initialized(st) == st.milestone # None /\ st.milestone[1].initialized

all_issues_closed(st) == st.milestone # None /\ st.milestone[1].all_issues_closed

auto_accept(st) == st.workspace # None /\ st.workspace[1].auto_accept

file_only_mode(st) == st.workspace # None /\ st.workspace[1].file_only_mode

\* dict.get(key, default) on a JSON object: an object is a record of its
\* possible keys, a key it lacks is None.
Get(obj, key, default) == IF obj[key] = None THEN default ELSE obj[key][1]

\* "event and event.is_set()" for an Optional[asyncio.Event].
IsSet(event) == event # None /\ event[1]

\* "event and not event.is_set()".
IsCleared(event) == event # None /\ ~event[1]

\* Python truthiness of an Optional[int].
Truthy(opt) == opt # None /\ opt[1] # 0

\* The records of all scopes in the order Python iterates the log.
AllRecords(log) == log[Scopes[1]] \o log[Scopes[2]]

\* Python's max(seq, key=created_at): the first element with the greatest key.
MaxByCreatedAt(seq) ==
    seq[CHOOSE i \in 1..Len(seq) :
            /\ \A j \in 1..Len(seq) : seq[j].created_at <= seq[i].created_at
            /\ \A j \in 1..(i - 1) : seq[j].created_at < seq[i].created_at]

NotCompleted(ckpt) == ~ckpt.completed

load(ws, ms, log) ==
    LET workspace == ws
        fom == IF workspace # None THEN workspace[1].file_only_mode ELSE FALSE
        mfile == IF fom THEN FILE_MILESTONE_FILE ELSE GITLAB_MILESTONE_FILE
    IN  AgentState(ms[mfile], workspace, log)

load_pending_checkpoint(log) ==
    LET all_pending == SelectSeq(AllRecords(log), NotCompleted)
    IN  IF all_pending = <<>> THEN None ELSE Some(MaxByCreatedAt(all_pending))

\* A plausible bug: the first record of the type counts, not the latest.
is_checkpoint_type_approved_first(log, checkpoint_type) ==
    LET OfType(ckpt) == ckpt.checkpoint_type = checkpoint_type
        matching == SelectSeq(AllRecords(log), OfType)
    IN  IF matching = <<>> THEN FALSE
        ELSE matching[1].status = APPROVED

\* A plausible bug: any approved record of the type counts, not the latest.
is_checkpoint_type_approved_any(log, checkpoint_type) ==
    \E i \in 1..Len(AllRecords(log)) :
        /\ AllRecords(log)[i].checkpoint_type = checkpoint_type
        /\ AllRecords(log)[i].status = APPROVED

is_checkpoint_type_approved(log, checkpoint_type) ==
    LET OfType(ckpt) == ckpt.checkpoint_type = checkpoint_type
        matching == SelectSeq(AllRecords(log), OfType)
    IN  IF matching = <<>> THEN FALSE
        ELSE MaxByCreatedAt(matching).status = APPROVED

\* agent/core/hitl.py resolve_checkpoint: the pending record is set to the
\* given status with completed=true, decision, notes and modifications, and the
\* log is written back; the orchestrator names no record, so it is the one
\* load_pending_checkpoint finds.
resolve_record(log, id, st, decision, notes, modifications) ==
    [s \in DOMAIN log |->
        [i \in 1..Len(log[s]) |->
            IF log[s][i].checkpoint_id = id
            THEN [log[s][i] EXCEPT !.status = st, !.completed = TRUE,
                                   !.decision = decision, !.notes = notes,
                                   !.modifications = modifications]
            ELSE log[s][i]]]

resolve_checkpoint(log, st, decision, notes, modifications) ==
    LET found == load_pending_checkpoint(log)
    IN  IF found = None THEN log
        ELSE resolve_record(log, found[1].checkpoint_id, st, decision, notes, modifications)

(***************************************************************************)
(* agent/core/checkpoint_handlers.py: auto-approval by checkpoint type.    *)
(***************************************************************************)
HandlerResult(decision, notes, modifications) ==
    [decision |-> decision, notes |-> notes, modifications |-> modifications]

\* A checkpoint's context object and a resolution's modifications object.
Context(all_issues, rec_iid) ==
    [all_issues_with_judgments |-> all_issues, recommended_issue_iid |-> rec_iid]

Modifications(iids, iid) == [selected_issue_iids |-> iids, selected_issue_iid |-> iid]

\* One entry of context.all_issues_with_judgments.
IssueData(iid, decision) ==
    [issue_iid |-> iid, llm_judgment |-> Some([decision |-> Some(decision)])]

NoJudgment == [decision |-> None]

\* The list comprehension of IssueEnrichmentHandler.auto_approve.
RECURSIVE selected_iids(_)
selected_iids(all_issues) ==
    IF all_issues = <<>> THEN <<>>
    ELSE LET issue_data == Head(all_issues)
             keep == /\ Get(issue_data, "llm_judgment", NoJudgment).decision
                            = Some("needs_enrichment")
                     /\ issue_data.issue_iid # None
         IN  (IF keep THEN <<issue_data.issue_iid[1]>> ELSE <<>>)
                 \o selected_iids(Tail(all_issues))

\* A plausible bug: the decision is looked up on the entry, not in its
\* llm_judgment, so no entry is ever selected.
IssueEnrichmentHandler_flat(ckpt) ==
    HandlerResult(None, Some("Auto-approved - no issues flagged for enrichment"),
                  Some(Modifications(Some(<<>>), None)))

IssueEnrichmentHandler(ckpt) ==
    LET all_issues == Get(ckpt.context, "all_issues_with_judgments", <<>>)
        selected == selected_iids(all_issues)
        notes == IF selected # <<>>
                 THEN "Auto-approved with " \o ToString(Len(selected))
                          \o " LLM-recommended issues for enrichment"
                 ELSE "Auto-approved - no issues flagged for enrichment"
    IN  HandlerResult(None, Some(notes), Some(Modifications(Some(selected), None)))

RegressionApprovalHandler(ckpt) ==
    HandlerResult(Some("fix_now"), Some("Auto-approved with fix_now action"), None)

IssueSelectionHandler(ckpt) ==
    LET rec_iid == ckpt.context.recommended_issue_iid
    IN  IF Truthy(rec_iid)
        THEN HandlerResult(None,
                 Some("Auto-approved recommended issue #" \o ToString(rec_iid[1])),
                 Some(Modifications(None, rec_iid)))
        ELSE HandlerResult(None, Some("Auto-approved (no specific recommendation)"), None)

DefaultCheckpointHandler(ckpt) == HandlerResult(None, Some("Auto-approved"), None)

\* CheckpointDispatcher.auto_approve with the default handler list: the first
\* handler whose can_handle accepts the type, the catch-all last.
auto_approve(ckpt) ==
    CASE ckpt.checkpoint_type = ISSUE_ENRICHMENT -> IssueEnrichmentHandler(ckpt)
      [] ckpt.checkpoint_type = REGRESSION_APPROVAL -> RegressionApprovalHandler(ckpt)
      [] ckpt.checkpoint_type = ISSUE_SELECTION -> IssueSelectionHandler(ckpt)
      [] OTHER -> DefaultCheckpointHandler(ckpt)

(***************************************************************************)
(* agent/core/orchestrator.py                                              *)
(***************************************************************************)
\* has_repo, has_dir: the call passes a state repository / a project directory.
determine_session_type(st, skip_mr_creation, has_repo, has_dir, log) ==
    IF ~is_initialized(st) THEN INITIALIZER
    ELSE IF ~all_issues_closed(st) THEN CODING
    ELSE IF skip_mr_creation THEN CODING
    ELSE IF has_repo /\ has_dir /\ ~is_checkpoint_type_approved(log, MR_PHASE_TRANSITION)
         THEN CODING
    ELSE MR_CREATION

\* The file the sessions of this run keep the milestone in: the prompts are
\* chosen by config.file_only_mode (agent/prompts, get_*_prompt).
RunMilestoneFile ==
    IF config.file_only_mode THEN FILE_MILESTONE_FILE ELSE GITLAB_MILESTONE_FILE

\* The part of the loaded AgentState the loop reads after the load.
Loaded(st) == [milestone |-> st.milestone]

NoState == [milestone |-> None]

\* Lines 228-234: the max-iterations check and the reload of the state.
AfterStopPause(it) ==
    IF Truthy(config.max_iterations) /\ it > config.max_iterations[1]
    THEN /\ pc' = "final"
         /\ state' = NoState
    ELSE /\ pc' = "pending"
         /\ state' = Loaded(load(workspace_file, milestone_file, checkpoint_log))

\* Lines 221-234 with _check_stop_pause (278-289), up to the pause wait.
LoopTop ==
    /\ pc = "top"
    /\ iteration < MaxIter
    /\ iteration' = iteration + 1
    /\ IF IsSet(stop_event)
       THEN pc' = "final" /\ state' = NoState
       ELSE IF IsCleared(pause_event)
            THEN pc' = "paused" /\ state' = NoState
            ELSE AfterStopPause(iteration + 1)
    /\ UNCHANGED <<workspace_file, milestone_file, checkpoint_log, config, stop_event,
                   pause_event, session_type, status, checkpoint>>
    /\ UNCHANGED <<fvars, dvars>>

\* Line 286-289: pause_event.wait() returns, _check_stop_pause returns False.
PauseWaitReturns ==
    /\ pc = "paused"
    /\ IsSet(pause_event)
    /\ AfterStopPause(iteration)
    /\ UNCHANGED <<workspace_file, milestone_file, checkpoint_log, config, stop_event,
                   pause_event, iteration, session_type, status, checkpoint>>
    /\ UNCHANGED <<fvars, dvars>>

\* _handle_pending_checkpoint, lines 292-326; without auto_accept through the
\* first round of _wait_for_approval, which loads the same pending record and
\* goes to sleep: at "poll" the loop is in asyncio.sleep.
handle_pending_checkpoint ==
    /\ pc = "pending"
    /\ LET found == load_pending_checkpoint(checkpoint_log)
       IN  IF found = None \/ found[1].status # PENDING
           THEN /\ pc' = "decide"
                /\ UNCHANGED <<checkpoint_log, checkpoint>>
           ELSE LET fresh_state == load(workspace_file, milestone_file, checkpoint_log)
                    result == auto_approve(found[1])
                IN  IF auto_accept(fresh_state)
                    THEN /\ checkpoint_log' =
                                resolve_checkpoint(checkpoint_log, APPROVED, result.decision,
                                                   result.notes, result.modifications)
                         /\ pc' = "decide"
                         /\ UNCHANGED checkpoint
                    ELSE /\ pc' = "poll"
                         /\ checkpoint' = Some(found[1].checkpoint_id)
                         /\ UNCHANGED checkpoint_log
    /\ UNCHANGED <<workspace_file, milestone_file, config, stop_event, pause_event,
                   iteration, state, session_type, status>>
    /\ UNCHANGED <<fvars, dvars>>

\* _wait_for_approval, lines 329-345: one round of the poll loop.
wait_for_approval ==
    /\ pc = "poll"
    /\ LET found == load_pending_checkpoint(checkpoint_log)
       IN  IF found = None
           THEN pc' = "decide" /\ checkpoint' = None /\ UNCHANGED state
           ELSE IF found[1].status \in {APPROVED, MODIFIED, SKIPPED}
           THEN pc' = "decide" /\ checkpoint' = None /\ UNCHANGED state
           ELSE IF found[1].status = REJECTED
           THEN pc' = "final" /\ checkpoint' = None /\ state' = NoState
           ELSE pc' = "poll" /\ checkpoint' = Some(found[1].checkpoint_id) /\ UNCHANGED state
    /\ UNCHANGED <<workspace_file, milestone_file, checkpoint_log, config, stop_event,
                   pause_event, iteration, session_type, status>>
    /\ UNCHANGED <<fvars, dvars>>

\* A plausible bug: the completion condition of lines 245-248 is missing.
DecideSession_without_skip_exit ==
    /\ pc = "decide"
    /\ IF state.milestone # None /\ state.milestone[1].milestone_closed
       THEN pc' = "final" /\ UNCHANGED <<session_type, status>>
       ELSE /\ session_type' = determine_session_type(state, config.skip_mr_creation,
                                                      TRUE, TRUE, checkpoint_log)
            /\ status' = "error"
            /\ pc' = "open"
    /\ state' = NoState
    /\ UNCHANGED <<workspace_file, milestone_file, checkpoint_log, config, stop_event,
                   pause_event, iteration, checkpoint>>
    /\ UNCHANGED <<fvars, dvars>>

\* Lines 240-265: the completion conditions, the phase, the client.
DecideSession ==
    /\ pc = "decide"
    /\ IF state.milestone # None /\ state.milestone[1].milestone_closed
       THEN pc' = "final" /\ UNCHANGED <<session_type, status>>
       ELSE IF config.skip_mr_creation /\ all_issues_closed(state)
       THEN pc' = "final" /\ UNCHANGED <<session_type, status>>
       ELSE /\ session_type' = determine_session_type(state, config.skip_mr_creation,
                                                      TRUE, TRUE, checkpoint_log)
            /\ status' = "error"
            /\ pc' = "open"
    /\ state' = NoState
    /\ UNCHANGED <<workspace_file, milestone_file, checkpoint_log, config, stop_event,
                   pause_event, iteration, checkpoint>>
    /\ UNCHANGED <<fvars, dvars>>

\* Line 266, entering "async with client": the SDK connects.
ClientEnter ==
    /\ pc = "open"
    /\ pc' = "session"
    /\ UNCHANGED <<workspace_file, milestone_file, checkpoint_log, config, stop_event,
                   pause_event, iteration, state, session_type, status, checkpoint>>
    /\ UNCHANGED <<fvars, dvars>>

\* Line 266: the SDK raises while connecting; nothing in the loop catches it.
ClientEnterRaises ==
    /\ pc = "open"
    /\ pc' = "raised"
    /\ UNCHANGED <<workspace_file, milestone_file, checkpoint_log, config, stop_event,
                   pause_event, iteration, state, session_type, status, checkpoint>>
    /\ UNCHANGED <<fvars, dvars>>

\* session_runner.py run_agent_session, lines 26-77: "continue" at the end of
\* the stream, "error" when query or receive_response raises; then the client
\* is closed and line 267 assigns the status.
run_agent_session ==
    /\ pc = "session"
    /\ \E outcome \in {"continue", "error"} : status' = outcome
    /\ pc' = "result"
    /\ UNCHANGED <<workspace_file, milestone_file, checkpoint_log, config, stop_event,
                   pause_event, iteration, state, session_type, checkpoint>>
    /\ UNCHANGED <<fvars, dvars>>

\* Line 266, leaving "async with client": the SDK raises while disconnecting.
ClientExitRaises ==
    /\ pc = "session"
    /\ pc' = "raised"
    /\ UNCHANGED <<workspace_file, milestone_file, checkpoint_log, config, stop_event,
                   pause_event, iteration, state, session_type, status, checkpoint>>
    /\ UNCHANGED <<fvars, dvars>>

\* _handle_session_result with _wait_with_stop_check, lines 348-388: both
\* outcomes wait AUTO_CONTINUE_DELAY_SECONDS on the stop event; a set event ends
\* the loop, a timeout falls through to the stop check of line 366 and the sleep.
handle_session_result ==
    /\ pc = "result"
    /\ IF status \in {"continue", "error"} /\ IsSet(stop_event)
       THEN pc' = "final"
       ELSE IF IsSet(stop_event) THEN pc' = "final" ELSE pc' = "sleep"
    /\ status' = "error"
    /\ session_type' = INITIALIZER
    /\ UNCHANGED <<workspace_file, milestone_file, checkpoint_log, config, stop_event,
                   pause_event, iteration, state, checkpoint>>
    /\ UNCHANGED <<fvars, dvars>>

\* Line 370: asyncio.sleep(1) returns and the loop goes round.
SleepReturns ==
    /\ pc = "sleep"
    /\ pc' = "top"
    /\ UNCHANGED <<workspace_file, milestone_file, checkpoint_log, config, stop_event,
                   pause_event, iteration, state, session_type, status, checkpoint>>
    /\ UNCHANGED <<fvars, dvars>>

\* Lines 273-275: the final summary after the loop.
FinalSummary ==
    /\ pc = "final"
    /\ pc' = "done"
    /\ UNCHANGED <<workspace_file, milestone_file, checkpoint_log, config, stop_event,
                   pause_event, iteration, state, session_type, status, checkpoint>>
    /\ UNCHANGED <<fvars, dvars>>

(***************************************************************************)
(* The processes around the loop: the LLM session's tools, the observer    *)
(* (TUI), and the owner of the stop and pause events.                      *)
(***************************************************************************)
\* The loop has not ended.
Running == pc \notin {"final", "done", "raised"}

LifecycleIndex(doc) == CHOOSE k \in 1..Len(MilestoneLifecycle) : MilestoneLifecycle[k] = doc

\* The session's tools move the run's milestone document along its lifecycle.
LLMWritesMilestone ==
    /\ pc = "session"
    /\ milestone_file[RunMilestoneFile] # None
    /\ \E k \in 1..Len(MilestoneLifecycle) :
          /\ k > LifecycleIndex(milestone_file[RunMilestoneFile][1])
          /\ milestone_file' =
                [milestone_file EXCEPT ![RunMilestoneFile] = Some(MilestoneLifecycle[k])]
    /\ UNCHANGED <<workspace_file, checkpoint_log, config, stop_event, pause_event, pc,
                   iteration, state, session_type, status, checkpoint>>
    /\ UNCHANGED <<fvars, dvars>>

IssueIids == {None, Some(1), Some(2)}

Decisions == {"needs_enrichment", "ok"}

IssueEntries == {IssueData(i, d) : i \in IssueIids, d \in Decisions}

EnrichmentContexts ==
    {Context(None, None), Context(Some(<<>>), None)}
        \cup {Context(Some(<<a>>), None) : a \in IssueEntries}
        \cup {Context(Some(<<a, b>>), None) : a \in IssueEntries, b \in IssueEntries}

\* The (type, context) pairs of the checkpoints a run directory may hold.
AnyCheckpoints ==
    ({ISSUE_ENRICHMENT} \X EnrichmentContexts)
        \cup ({MR_PHASE_TRANSITION, REGRESSION_APPROVAL} \X {Context(None, None)})
        \cup ({ISSUE_SELECTION} \X {Context(None, None), Context(None, Some(1))})

\* The checkpoints the sessions of the model's fresh run create: the issue
\* enrichment of the spec's scenario S7 and the MR phase transition.
SessionCheckpoints ==
    { <<ISSUE_ENRICHMENT,
        Context(Some(<<IssueData(Some(1), "needs_enrichment"), IssueData(Some(2), "ok")>>),
                None)>>,
      <<MR_PHASE_TRANSITION, Context(None, None)>> }

LastCreatedAt(log) ==
    IF AllRecords(log) = <<>> THEN 0 ELSE MaxByCreatedAt(AllRecords(log)).created_at

CheckpointRecord(id, type, ctx, t) ==
    [checkpoint_id |-> id, checkpoint_type |-> type, status |-> PENDING,
     created_at |-> t, completed |-> FALSE, context |-> ctx,
     decision |-> None, notes |-> None, modifications |-> None]

\* The session's tools append a pending record to a scope of the log; its
\* created_at is the clock's reading, later than any record's.
LLMCreatesCheckpoint ==
    /\ pc = "session"
    /\ Len(AllRecords(checkpoint_log)) < MaxCkpt
    /\ \E s \in DOMAIN checkpoint_log, tc \in SessionCheckpoints :
          checkpoint_log' =
              [checkpoint_log EXCEPT ![s] =
                  Append(@, CheckpointRecord(Len(AllRecords(checkpoint_log)) + 1,
                                             tc[1], tc[2],
                                             LastCreatedAt(checkpoint_log) + 1))]
    /\ UNCHANGED <<workspace_file, milestone_file, config, stop_event, pause_event, pc,
                   iteration, state, session_type, status, checkpoint>>
    /\ UNCHANGED <<fvars, dvars>>

\* The resolutions the observer writes.  A resolved record is completed, so
\* the code reads its status only in is_checkpoint_type_approved, which tells
\* APPROVED from the rest: REJECTED stands for MODIFIED and SKIPPED as well.
ObserverStatuses == {APPROVED, REJECTED}

\* The observer records a human resolution of a pending record.
ObserverResolves ==
    /\ Running
    /\ \E i \in 1..Len(AllRecords(checkpoint_log)), st \in ObserverStatuses :
          /\ AllRecords(checkpoint_log)[i].status = PENDING
          /\ ~AllRecords(checkpoint_log)[i].completed
          /\ checkpoint_log' =
                resolve_record(checkpoint_log, AllRecords(checkpoint_log)[i].checkpoint_id,
                               st, None, None, None)
    /\ UNCHANGED <<workspace_file, milestone_file, config, stop_event, pause_event, pc,
                   iteration, state, session_type, status, checkpoint>>
    /\ UNCHANGED <<fvars, dvars>>

\* The observer toggles auto_accept in the workspace document.
ObserverTogglesAutoAccept ==
    /\ Running
    /\ workspace_file # None
    /\ workspace_file' =
          Some([workspace_file[1] EXCEPT !.auto_accept = ~workspace_file[1].auto_accept])
    /\ UNCHANGED <<milestone_file, checkpoint_log, config, stop_event, pause_event, pc,
                   iteration, state, session_type, status, checkpoint>>
    /\ UNCHANGED <<fvars, dvars>>

\* The loop's coroutine is suspended in an await: the pause wait, the poll
\* sleep, the client's connect, the session, the timed wait on the stop event
\* and the sleep after it.  The events are asyncio.Events, set and cleared by
\* other coroutines of the same event loop, which run only then.
Suspended == pc \in {"paused", "poll", "open", "session", "result", "sleep"}

StopRequested ==
    /\ Suspended
    /\ IsCleared(stop_event)
    /\ stop_event' = Some(TRUE)
    /\ UNCHANGED <<workspace_file, milestone_file, checkpoint_log, config, pause_event, pc,
                   iteration, state, session_type, status, checkpoint>>
    /\ UNCHANGED <<fvars, dvars>>

PauseRequested ==
    /\ Suspended
    /\ IsSet(pause_event)
    /\ pause_event' = Some(FALSE)
    /\ UNCHANGED <<workspace_file, milestone_file, checkpoint_log, config, stop_event, pc,
                   iteration, state, session_type, status, checkpoint>>
    /\ UNCHANGED <<fvars, dvars>>

ResumeRequested ==
    /\ Suspended
    /\ IsCleared(pause_event)
    /\ pause_event' = Some(TRUE)
    /\ UNCHANGED <<workspace_file, milestone_file, checkpoint_log, config, stop_event, pc,
                   iteration, state, session_type, status, checkpoint>>
    /\ UNCHANGED <<fvars, dvars>>

(***************************************************************************)
(* The run: run_autonomous_agent has built the config and the loop starts. *)
(***************************************************************************)
MaxIterationsChoices == {None} \cup {Some(n) : n \in (-1)..(MaxIter - 1)}

AgentConfig(m, s, f) ==
    [max_iterations |-> m, skip_mr_creation |-> s, file_only_mode |-> f]

MilestoneFiles(run_doc) ==
    [n \in {GITLAB_MILESTONE_FILE, FILE_MILESTONE_FILE} |->
        IF n = RunMilestoneFile THEN run_doc ELSE None]

\* No call from outside the loop is being made.
NoCall == call = None /\ returned = None

EmptyRegistry == [id \in {} |-> {}]

AgentIds == {"A", "B"}

\* The client connections of the socket server.
Clients == {"c1", "c2"}

\* The shutdown task, as a caller of _stop_agent.
SHUTDOWN_TASK == "shutdown"

Callers == Clients \cup {SHUTDOWN_TASK}

NobodyWaits == [h \in Callers |-> None]

\* No daemon has been started.
NoDaemon ==
    /\ daemon_up = FALSE
    /\ agents = EmptyRegistry
    /\ state_file = None
    /\ spec_exists = TRUE
    /\ before_kill = EmptyRegistry
    /\ response = None
    /\ waiting = NobodyWaits
    /\ orphans = {}
    /\ monitor_tasks = {}
    /\ shutdown_task = None
    /\ socket_path = None
    /\ second_up = FALSE

LoopStart ==
    /\ pc = "top"
    /\ iteration = 0
    /\ state = NoState
    /\ session_type = INITIALIZER
    /\ status = "error"
    /\ checkpoint = None

\* The loop's own steps, the SDK's outcomes included.
LoopNext ==
    \/ LoopTop
    \/ handle_pending_checkpoint
    \/ wait_for_approval
    \/ DecideSession
    \/ ClientEnter
    \/ ClientEnterRaises
    \/ run_agent_session
    \/ ClientExitRaises
    \/ handle_session_result
    \/ SleepReturns
    \/ FinalSummary

EmptyLog == [s \in {Scopes[1], Scopes[2]} |-> <<>>]

\* A log holding one pending record.
OnePending(s, tc) == [EmptyLog EXCEPT ![s] = <<CheckpointRecord(1, tc[1], tc[2], 1)>>]

\* A run from the command line (agent/cli.py, lines 70-118): the workspace
\* initializer has just written a fresh run directory
\* (agent/prompts/__init__.py, lines 246-274) and no events are passed.
Init ==
    /\ config \in {AgentConfig(None, s, FALSE) : s \in BOOLEAN}
    /\ workspace_file = Some(WorkspaceInfo(config.file_only_mode, FALSE))
    /\ milestone_file = MilestoneFiles(Some(MilestoneLifecycle[1]))
    /\ checkpoint_log = EmptyLog
    /\ stop_event = None
    /\ pause_event = None
    /\ LoopStart
    /\ NoCall
    /\ NoDaemon

Next ==
    \/ LoopNext
    \/ LLMWritesMilestone
    \/ LLMCreatesCheckpoint
    \/ ObserverResolves
    \/ ObserverTogglesAutoAccept

Spec == Init /\ [][Next]_vars

\* A run started through run_autonomous_agent with both events, on a run
\* directory an earlier run left behind: the workspace document may be
\* unreadable, the milestone anywhere in its lifecycle, and one checkpoint may
\* still be pending.
InitResume ==
    /\ config \in {AgentConfig(m, s, f) :
                      m \in MaxIterationsChoices, s \in BOOLEAN, f \in BOOLEAN}
    /\ workspace_file \in
          {None} \cup {Some(WorkspaceInfo(config.file_only_mode, a)) : a \in BOOLEAN}
    /\ milestone_file \in
          {MilestoneFiles(Some(MilestoneLifecycle[k])) : k \in 1..Len(MilestoneLifecycle)}
    /\ checkpoint_log \in
          {EmptyLog} \cup {OnePending(s, tc) : s \in {Scopes[1], Scopes[2]},
                                               tc \in SessionCheckpoints}
    /\ stop_event = Some(FALSE)
    /\ pause_event = Some(TRUE)
    /\ LoopStart
    /\ NoCall
    /\ NoDaemon

NextResume ==
    \/ LoopNext
    \/ PauseWaitReturns
    \/ LLMWritesMilestone
    \/ ObserverResolves
    \/ ObserverTogglesAutoAccept
    \/ StopRequested
    \/ PauseRequested
    \/ ResumeRequested

SpecResume == InitResume /\ [][NextResume]_vars

\* A run from the command line on a run directory whose log holds one pending
\* checkpoint of any type and context.
InitPending ==
    /\ config = AgentConfig(None, FALSE, FALSE)
    /\ workspace_file \in {Some(WorkspaceInfo(config.file_only_mode, a)) : a \in BOOLEAN}
    /\ milestone_file \in
          {MilestoneFiles(Some(MilestoneLifecycle[k])) : k \in 1..Len(MilestoneLifecycle)}
    /\ checkpoint_log \in
          {OnePending(s, tc) : s \in {Scopes[1], Scopes[2]}, tc \in AnyCheckpoints}
    /\ stop_event = None
    /\ pause_event = None
    /\ LoopStart
    /\ NoCall
    /\ NoDaemon

NextPending ==
    \/ LoopNext
    \/ LLMWritesMilestone
    \/ ObserverResolves
    \/ ObserverTogglesAutoAccept

SpecPending == InitPending /\ [][NextPending]_vars

\* SpecPending with the scheduling of asyncio: the loop's coroutine is
\* resumed whenever it can run (a sleep returns, run_until_complete drives
\* it).  Nothing obliges the observer or the session's tools to act.
SpecPolling == SpecPending /\ WF_vars(LoopNext)

(***************************************************************************)
(* determine_session_type called as a function of the package              *)
(* (agent/core/__init__.py exports it): state_repo and project_dir are     *)
(* optional arguments.                                                     *)
(***************************************************************************)
LoopIdle ==
    /\ config = AgentConfig(None, FALSE, FALSE)
    /\ workspace_file = None
    /\ milestone_file = MilestoneFiles(None)
    /\ checkpoint_log = EmptyLog
    /\ stop_event = None
    /\ pause_event = None
    /\ pc = "done"
    /\ iteration = 0
    /\ state = NoState
    /\ session_type = INITIALIZER
    /\ status = "error"
    /\ checkpoint = None

\* The milestones MilestoneState.from_dict can return, and no milestone.
Milestones ==
    {None} \cup {Some(MilestoneState(i, a, m)) : i \in BOOLEAN, a \in BOOLEAN, m \in BOOLEAN}

RecordStatuses == {PENDING, APPROVED, REJECTED, MODIFIED, SKIPPED}

\* An MR_PHASE_TRANSITION record in the given status.
TransitionRecord(id, st, t) ==
    LET r == CheckpointRecord(id, MR_PHASE_TRANSITION, Context(None, None), t)
    IN  IF st = PENDING THEN r ELSE [r EXCEPT !.status = st, !.completed = TRUE]

\* Logs of at most two MR_PHASE_TRANSITION records.
TransitionLogs ==
    {EmptyLog}
        \cup {[EmptyLog EXCEPT ![Scopes[1]] = <<TransitionRecord(1, st, 1)>>] :
                 st \in RecordStatuses}
        \cup {[EmptyLog EXCEPT ![Scopes[1]] = <<TransitionRecord(1, s1, 1)>>,
                               ![Scopes[2]] = <<TransitionRecord(2, s2, t)>>] :
                 s1 \in RecordStatuses, s2 \in RecordStatuses, t \in {1, 2}}

PhaseCall(m, s, r, d, l) ==
    [state |-> [milestone |-> m], skip_mr_creation |-> s, state_repo |-> r,
     project_dir |-> d, log |-> l]

InitPhase ==
    /\ call \in {Some(PhaseCall(m, s, r, d, l)) :
                    m \in Milestones, s \in BOOLEAN, r \in BOOLEAN, d \in BOOLEAN,
                    l \in TransitionLogs}
    /\ returned = None
    /\ LoopIdle
    /\ NoDaemon

call_determine_session_type ==
    /\ call # None
    /\ returned = None
    /\ returned' = Some(determine_session_type(call[1].state, call[1].skip_mr_creation,
                                               call[1].state_repo, call[1].project_dir,
                                               call[1].log))
    /\ UNCHANGED <<call, ovars, dvars>>

NextPhase == call_determine_session_type

SpecPhase == InitPhase /\ [][NextPhase]_vars

(***************************************************************************)
(* common/state.py: is_checkpoint_type_approved on logs of records of two  *)
(* types in every status.                                                  *)
(***************************************************************************)
\* A record of the log in the given status; a record that is not pending
\* has been resolved.
StatusRecord(id, type, st, t) ==
    LET r == CheckpointRecord(id, type, Context(None, None), t)
    IN  IF st = PENDING THEN r ELSE [r EXCEPT !.status = st, !.completed = TRUE]

\* Logs of at most two records in the first scope and one in the second.
ApprovalLogs ==
    LET Records(id) == {StatusRecord(id, type, st, t) :
                           type \in {MR_PHASE_TRANSITION, REGRESSION_APPROVAL},
                           st \in RecordStatuses, t \in {1, 2}}
    IN  {[EmptyLog EXCEPT ![Scopes[1]] = l1, ![Scopes[2]] = l2] :
            l1 \in {<<>>} \cup {<<a>> : a \in Records(1)}
                     \cup {<<a, b>> : a \in Records(1), b \in Records(2)},
            l2 \in {<<>>} \cup {<<c>> : c \in Records(3)}}

InitApproved ==
    /\ call \in {Some([log |-> l, checkpoint_type |-> type]) :
                    l \in ApprovalLogs,
                    type \in {MR_PHASE_TRANSITION, REGRESSION_APPROVAL}}
    /\ returned = None
    /\ LoopIdle
    /\ NoDaemon

call_is_checkpoint_type_approved ==
    /\ call # None
    /\ returned = None
    /\ returned' = Some(is_checkpoint_type_approved(call[1].log, call[1].checkpoint_type))
    /\ UNCHANGED <<call, ovars, dvars>>

SpecApproved == InitApproved /\ [][call_is_checkpoint_type_approved]_vars

(***************************************************************************)
(* common/state.py: FileStateRepository.load on the files of the run       *)
(* directory as they are on disk.                                          *)
(***************************************************************************)
\* What a file of the run directory is for _read_json: missing
\* (path.exists() is false); unreadable (open raises OSError); undecodable
\* (its bytes are not UTF-8: the read raises UnicodeDecodeError); malformed
\* (json.load raises JSONDecodeError); a falsy JSON value (null, 0, "", [],
\* {}); a truthy JSON value that is no object (an array, a number, a
\* string); a JSON object with keys.
FileKinds == {"missing", "unreadable", "undecodable", "malformed", "falsy", "array", "object"}

\* A file of the run directory: doc is the object's document as from_dict
\* reads it, for an object, and None otherwise.
File(kind, doc) == [kind |-> kind, doc |-> doc]

FilesOf(docs) ==
    {File(kind, None) : kind \in FileKinds \ {"object"}}
        \cup {File("object", Some(doc)) : doc \in docs}

\* FileStateRepository._read_json, lines 195-203: raised says that an
\* exception leaves the function, which catches json.JSONDecodeError and
\* OSError only; value is the file for a JSON value and a file of kind
\* "none" for the None it returns.
_read_json(file) ==
    IF file.kind = "undecodable"
    THEN [raised |-> TRUE, value |-> File("none", None)]
    ELSE IF file.kind \in {"missing", "unreadable", "malformed"}
    THEN [raised |-> FALSE, value |-> File("none", None)]
    ELSE [raised |-> FALSE, value |-> file]

\* "X.from_dict(data) if data else None", lines 210 and 216: from_dict calls
\* data.get, which a truthy value that is no object does not have
\* (AttributeError).
from_dict_if_data(read) ==
    IF read.raised \/ read.value.kind = "array"
    THEN [raised |-> TRUE, value |-> None]
    ELSE [raised |-> FALSE,
          value |-> IF read.value.kind = "object" THEN read.value.doc ELSE None]

\* FileStateRepository.load, lines 205-227, on the files: the AgentState, or
\* the exception that leaves it.
load_files(workspace_f, milestone_fs, log_f) ==
    LET workspace == from_dict_if_data(_read_json(workspace_f))
        fom == IF workspace.value # None THEN workspace.value[1].file_only_mode ELSE FALSE
        mfile == IF fom THEN FILE_MILESTONE_FILE ELSE GITLAB_MILESTONE_FILE
        milestone == from_dict_if_data(_read_json(milestone_fs[mfile]))
        checkpoint_data == _read_json(log_f)
        log == IF checkpoint_data.value.kind = "object"
               THEN checkpoint_data.value.doc[1] ELSE EmptyLog
    IN  IF workspace.raised \/ milestone.raised \/ checkpoint_data.raised
        THEN [raised |-> TRUE, state |-> None]
        ELSE [raised |-> FALSE,
              state |-> Some(AgentState(milestone.value, workspace.value, log))]

LoadCall(workspace_f, gitlab_f, file_f, log_f) ==
    [workspace |-> workspace_f,
     milestone |-> [n \in {GITLAB_MILESTONE_FILE, FILE_MILESTONE_FILE} |->
                       IF n = GITLAB_MILESTONE_FILE THEN gitlab_f ELSE file_f],
     log |-> log_f]

InitLoad ==
    /\ call \in {Some(LoadCall(w, g, f, l)) :
                    w \in FilesOf({WorkspaceInfo(fo, a) : fo \in BOOLEAN, a \in BOOLEAN}),
                    g \in FilesOf({MilestoneLifecycle[2], MilestoneLifecycle[3]}),
                    f \in FilesOf({MilestoneLifecycle[2], MilestoneLifecycle[3]}),
                    l \in FilesOf({OnePending(Scopes[1], <<MR_PHASE_TRANSITION, Context(None, None)>>)})}
    /\ returned = None
    /\ LoopIdle
    /\ NoDaemon

call_load ==
    /\ call # None
    /\ returned = None
    /\ returned' = Some(load_files(call[1].workspace, call[1].milestone, call[1].log))
    /\ UNCHANGED <<call, ovars, dvars>>

SpecLoad == InitLoad /\ [][call_load]_vars

(***************************************************************************)
(* common/utils.py: spec_filename_to_slug.  A file name is a sequence of   *)
(* characters: "a" stands for the lowercase letters, "B" for the uppercase *)
(* letters (lowercase "b"), "7" for the digits, "@" for any other          *)
(* character that is not a space, an underscore, a hyphen or a dot.        *)
(***************************************************************************)
NameChars == {"a", "B", "7", " ", "_", "-", ".", "@"}

\* The longest file name, in characters.
MaxNameLen == 4

FileNames == UNION {[1..n -> NameChars] : n \in 1..MaxNameLen}

\* Path.stem of a file name: the name up to its last dot, unless that dot
\* is the first or the last character or there is none.
stem(name) ==
    LET dots == {i \in 1..Len(name) : name[i] = "."}
        last == CHOOSE i \in dots : \A j \in dots : j <= i
    IN  IF dots # {} /\ 1 < last /\ last < Len(name)
        THEN SubSeq(name, 1, last - 1)
        ELSE name

\* str.lower, character by character.
lower(s) == [i \in 1..Len(s) |-> IF s[i] = "B" THEN "b" ELSE s[i]]

\* .replace(" ", "-").replace("_", "-")
hyphenate(s) == [i \in 1..Len(s) |-> IF s[i] \in {" ", "_"} THEN "-" ELSE s[i]]

\* re.sub(r"[^a-z0-9-]", "", slug)
KeptInSlug(c) == c \in {"a", "b", "7", "-"}

RECURSIVE collapse(_)

\* re.sub(r"-+", "-", slug)
collapse(s) ==
    IF Len(s) < 2 THEN s
    ELSE IF s[1] = "-" /\ s[2] = "-" THEN collapse(Tail(s))
    ELSE <<s[1]>> \o collapse(Tail(s))

RECURSIVE strip(_)

\* slug.strip("-")
strip(s) ==
    IF s = <<>> THEN s
    ELSE IF s[1] = "-" THEN strip(Tail(s))
    ELSE IF s[Len(s)] = "-" THEN strip(SubSeq(s, 1, Len(s) - 1))
    ELSE s

\* spec_filename_to_slug, lines 29-48.
spec_filename_to_slug(spec_file) ==
    LET slug == strip(collapse(SelectSeq(hyphenate(lower(stem(spec_file))), KeptInSlug)))
    IN  IF slug = <<>> THEN <<"default">> ELSE slug

InitSlug ==
    /\ call \in {Some(name) : name \in FileNames}
    /\ returned = None
    /\ LoopIdle
    /\ NoDaemon

call_spec_filename_to_slug ==
    /\ call # None
    /\ returned = None
    /\ returned' = Some(spec_filename_to_slug(call[1]))
    /\ UNCHANGED <<call, ovars, dvars>>

SpecSlug == InitSlug /\ [][call_spec_filename_to_slug]_vars

(***************************************************************************)
(* common/utils.py: the run hash.  Python's integers have no width; the    *)
(* 8-byte integer is held as its four 16-bit limbs, most significant       *)
(* first, and the arithmetic on it is long division by limbs, so that no   *)
(* value leaves the range of the model checker's integers.                 *)
(***************************************************************************)
BASE62_ALPHABET ==
    <<"0", "1", "2", "3", "4", "5", "6", "7", "8", "9", "A", "B", "C",
      "D", "E", "F", "G", "H", "I", "J", "K", "L", "M", "N", "O", "P",
      "Q", "R", "S", "T", "U", "V", "W", "X", "Y", "Z", "a", "b", "c",
      "d", "e", "f", "g", "h", "i", "j", "k", "l", "m", "n", "o", "p",
      "q", "r", "s", "t", "u", "v", "w", "x", "y", "z">>

\* The values of a limb are 0..Limb-1.
Limb == 256 * 256

RECURSIVE divmod(_, _, _, _)

\* divmod(num, divisor) by long division from limb i on: the quotient's
\* limbs and the remainder.
divmod(num, divisor, i, acc) ==
    IF i > Len(num)
    THEN acc
    ELSE LET cur == acc.rem * Limb + num[i]
         IN  divmod(num, divisor, i + 1,
                    [quot |-> Append(acc.quot, cur \div divisor), rem |-> cur % divisor])

\* num > 0
Positive(num) == \E i \in 1..Len(num) : num[i] > 0

RECURSIVE base62_digits(_, _)

\* The loop of lines 65-67: the characters of num, least significant first.
base62_digits(num, result) ==
    IF ~Positive(num)
    THEN result
    ELSE LET qr == divmod(num, Len(BASE62_ALPHABET), 1, [quot |-> <<>>, rem |-> 0])
         IN  base62_digits(qr.quot, Append(result, BASE62_ALPHABET[qr.rem + 1]))

\* reversed(seq)
reversed(seq) == [i \in 1..Len(seq) |-> seq[Len(seq) + 1 - i]]

\* _int_to_base62, lines 51-73: the padding of lines 70-71 and the slice
\* result[-length:] of line 73, which keeps the last length characters of
\* the list, the most significant ones.
_int_to_base62(num, length) ==
    IF ~Positive(num)
    THEN [i \in 1..length |-> BASE62_ALPHABET[1]]
    ELSE LET result == base62_digits(num, <<>>)
             padded == result \o [i \in 1..(IF Len(result) < length
                                             THEN length - Len(result) ELSE 0) |->
                                     BASE62_ALPHABET[1]]
         IN  reversed(SubSeq(padded, Len(padded) - length + 1, Len(padded)))

\* generate_spec_hash, lines 102-116, from the four bytes of the content
\* digest and the four random bytes, two limbs each.  The check of lines
\* 113-114 holds for every value _int_to_base62 returns.
generate_spec_hash(content_hash, random_bytes) ==
    _int_to_base62(content_hash \o random_bytes, 8)

\* The content digests and the random bytes of the calls.
ContentHashes == {<<0, 0>>, <<0, 1>>, <<12345, 0>>, <<Limb - 1, Limb - 1>>}

RandomBytes == {<<h, l>> : h \in {0, 1, Limb - 1}, l \in {0, 1, 61, 62, Limb - 1}}

\* Two runs of one spec file: the same content digest, random bytes drawn
\* twice.
InitHash ==
    /\ call \in {Some([content_hash |-> c, first |-> a, second |-> b]) :
                    c \in ContentHashes, a \in RandomBytes, b \in RandomBytes}
    /\ returned = None
    /\ LoopIdle
    /\ NoDaemon

call_generate_spec_hash ==
    /\ call # None
    /\ returned = None
    /\ returned' = Some([first |-> generate_spec_hash(call[1].content_hash, call[1].first),
                         second |-> generate_spec_hash(call[1].content_hash, call[1].second)])
    /\ UNCHANGED <<call, ovars, dvars>>

SpecHash == InitHash /\ [][call_generate_spec_hash]_vars

(***************************************************************************)
(* agent/prompts/__init__.py: initialize_agent_workspace on the run        *)
(* directories of a project.  The disk is a function from the names of the *)
(* run directories, <<slug, hash>>, to their files.                        *)
(***************************************************************************)
\* The spec file the calls name.
SPEC_SOURCE == <<"a", "_", "B", ".", "a">>

\* What generate_spec_hash may return for one file: the hash of the content
\* joined with secrets.token_bytes(4) (common/utils.py, lines 103-110).
SpecHashes == {"h1", "h2"}

\* The calls made with one tuple of arguments.
MaxCalls == 2

\* The dict written to .workspace_info.json, lines 248-261, without the keys
\* that are constants or copies of flags the model does not vary.
WorkspaceInfoDoc(slug, hash, file_only, skip_mr, auto) ==
    [spec_slug |-> slug, spec_hash |-> hash, auto_accept |-> auto,
     file_only_mode |-> file_only, skip_mr_creation |-> skip_mr]

\* A run directory in use: auto-accept was switched on, the log and the
\* GitLab milestone file were written to.
UsedRunDir(slug, hash) ==
    [app_spec |-> "old spec",
     workspace_info |-> WorkspaceInfoDoc(slug, hash, FALSE, FALSE, TRUE),
     checkpoint_log |-> "records",
     milestone |-> [n \in {GITLAB_MILESTONE_FILE, FILE_MILESTONE_FILE} |->
                       IF n = GITLAB_MILESTONE_FILE THEN Some("initialized") ELSE None],
     logs |-> TRUE]

\* A plausible bug: the templates of the checkpoint log and of the
\* milestone file are written whether or not the files exist.
initialize_agent_workspace_unguarded(disk, file_only_mode_arg, skip_mr_creation, spec_hash, spec_slug, generated) ==
    LET slug == IF spec_slug = None THEN spec_filename_to_slug(SPEC_SOURCE) ELSE spec_slug[1]
        hash == IF spec_hash = None THEN generated ELSE spec_hash[1]
        agent_dir == <<slug, hash>>
        milestone_filename == IF file_only_mode_arg THEN FILE_MILESTONE_FILE
                              ELSE GITLAB_MILESTONE_FILE
        old_milestone == IF agent_dir \in DOMAIN disk THEN disk[agent_dir].milestone
                         ELSE [n \in {GITLAB_MILESTONE_FILE, FILE_MILESTONE_FILE} |-> None]
        run_dir ==
            [app_spec |-> "spec",
             workspace_info |-> WorkspaceInfoDoc(slug, hash, file_only_mode_arg,
                                                 skip_mr_creation, FALSE),
             checkpoint_log |-> "template",
             milestone |-> [old_milestone EXCEPT ![milestone_filename] = Some("template")],
             logs |-> TRUE]
    IN  [d \in DOMAIN disk \cup {agent_dir} |-> IF d = agent_dir THEN run_dir ELSE disk[d]]

\* initialize_agent_workspace, lines 193-280: the disk it leaves, given what
\* generate_spec_hash returns when it is called.
initialize_agent_workspace(disk, file_only_mode_arg, skip_mr_creation, spec_hash, spec_slug, generated) ==
    LET slug == IF spec_slug = None THEN spec_filename_to_slug(SPEC_SOURCE) ELSE spec_slug[1]
        hash == IF spec_hash = None THEN generated ELSE spec_hash[1]
        agent_dir == <<slug, hash>>
        milestone_filename == IF file_only_mode_arg THEN FILE_MILESTONE_FILE
                              ELSE GITLAB_MILESTONE_FILE
        old_milestone == IF agent_dir \in DOMAIN disk THEN disk[agent_dir].milestone
                         ELSE [n \in {GITLAB_MILESTONE_FILE, FILE_MILESTONE_FILE} |-> None]
        run_dir ==
            [app_spec |-> "spec",
             workspace_info |-> WorkspaceInfoDoc(slug, hash, file_only_mode_arg,
                                                 skip_mr_creation, FALSE),
             checkpoint_log |-> IF agent_dir \in DOMAIN disk
                                THEN disk[agent_dir].checkpoint_log ELSE "template",
             milestone |-> IF old_milestone[milestone_filename] = None
                           THEN [old_milestone EXCEPT ![milestone_filename] = Some("template")]
                           ELSE old_milestone,
             logs |-> TRUE]
    IN  [d \in DOMAIN disk \cup {agent_dir} |-> IF d = agent_dir THEN run_dir ELSE disk[d]]

InitWorkspace ==
    /\ call \in {Some([file_only_mode |-> f, skip_mr_creation |-> s, spec_hash |-> h,
                       spec_slug |-> g, calls |-> 0]) :
                    f \in BOOLEAN, s \in BOOLEAN,
                    h \in {None} \cup {Some(x) : x \in SpecHashes},
                    g \in {None, Some(<<"a">>)}}
    /\ returned \in {Some(EmptyRegistry),
                     Some([d \in {<<spec_filename_to_slug(SPEC_SOURCE), "h1">>} |->
                              UsedRunDir(d[1], d[2])])}
    /\ LoopIdle
    /\ NoDaemon

call_initialize_agent_workspace ==
    /\ call # None
    /\ call[1].calls < MaxCalls
    /\ \E generated \in SpecHashes :
          returned' = Some(initialize_agent_workspace(returned[1], call[1].file_only_mode,
                               call[1].skip_mr_creation, call[1].spec_hash,
                               call[1].spec_slug, generated))
    /\ call' = Some([call[1] EXCEPT !.calls = @ + 1])
    /\ UNCHANGED <<ovars, dvars>>

SpecWorkspace == InitWorkspace /\ [][call_initialize_agent_workspace]_vars

(***************************************************************************)
(* agent/daemon/server.py: the registry, daemon_state.json, the command    *)
(* handlers, the monitor tasks, the shutdown task, and the daemon's death  *)
(* and restart.  Of an agent's record the model keeps agent_id, config,    *)
(* process, status and exit_code; log_file and the timestamps play no part *)
(* in the handlers' decisions.                                             *)
(*                                                                         *)
(* The daemon runs one asyncio event loop.  A handler runs without         *)
(* interruption up to an await that suspends it; the only such await of    *)
(* the command handlers is the wait_for in _stop_agent (line 654), reached *)
(* when the agent's child is alive.  While a handler is suspended there,   *)
(* the handlers of the other connections, the monitor tasks and the        *)
(* shutdown task run in any order.                                         *)
(***************************************************************************)
STARTING == "starting"

RUNNING == "running"

STOPPED == "stopped"

FAILED == "failed"

READY == "ready"

\* The two daemon processes that may be started on the machine; the model
\* follows the registry of the first.
FIRST_DAEMON == "d1"

SECOND_DAEMON == "d2"

\* The request's config object, of which the handlers read these two keys.
DaemonConfig(spec_file, project_dir) == [spec_file |-> spec_file, project_dir |-> project_dir]

\* An empty config, one without a project directory, and a complete one.
DaemonConfigs ==
    { DaemonConfig(None, None), DaemonConfig(Some("spec.md"), None),
      DaemonConfig(Some("spec.md"), Some("project")) }

ValidConfig == DaemonConfig(Some("spec.md"), Some("project"))

\* The empty config and the complete one.
StartConfigs == {DaemonConfig(None, None), ValidConfig}

\* The agent the clients of the smaller specifications name.
OneAgent == {"A"}

\* Python truthiness of an optional string.
TruthyStr(opt) == opt # None /\ opt[1] # ""

\* A subprocess.Popen: returncode is None while the child lives.
Popen(returncode) == [returncode |-> returncode]

Live(process) == process # None /\ process[1].returncode = None

AgentProcess(agent_id, cfg, process, st, exit_code) ==
    [agent_id |-> agent_id, config |-> cfg, process |-> process, status |-> st,
     exit_code |-> exit_code]

\* The returncode of a child ended by terminate().
SIGTERM_RETURNCODE == 0 - 15

\* The returncode of a child ended by kill().
SIGKILL_RETURNCODE == 0 - 9

\* The object _save_state writes for one agent.
StoredAgent(agent) ==
    [agent_id |-> agent.agent_id, config |-> agent.config, status |-> agent.status,
     exit_code |-> agent.exit_code]

save_state(ags) == Some([id \in DOMAIN ags |-> StoredAgent(ags[id])])

\* What a write of the state file does to it: the document is written; the
\* file cannot be opened (OSError before anything is written); the file is
\* truncated and the write fails (OSError after open).
DiskOutcomes == {"written", "unwritable", "truncated"}

\* _save_state, lines 128-148: the OSError of a failed write is logged and
\* swallowed.  The file after the call; None is an absent or unparsable file.
_save_state(ags, file, disk) ==
    CASE disk = "written" -> save_state(ags)
      [] disk = "unwritable" -> file
      [] OTHER -> None

\* A plausible bug: no record is skipped.
Skipped_none(stored, exists) == {}

\* The records _restore_agents_from_state skips.
Skipped(stored, exists) ==
    {id \in DOMAIN stored : TruthyStr(stored[id].config.spec_file) /\ ~exists}

restore_agents_from_state(stored, exists) ==
    [id \in DOMAIN stored \ Skipped(stored, exists) |->
        AgentProcess(stored[id].agent_id, stored[id].config, None,
                     IF stored[id].status = RUNNING THEN STOPPED ELSE stored[id].status,
                     stored[id].exit_code)]

load_state(file, exists) ==
    IF file = None THEN EmptyRegistry ELSE restore_agents_from_state(file[1], exists)

\* The registry with the record of id set to agent.
WithAgent(ags, id, agent) ==
    [i \in DOMAIN ags \cup {id} |-> IF i = id THEN agent ELSE ags[i]]

WithoutAgent(ags, id) == [i \in DOMAIN ags \ {id} |-> ags[i]]

\* A response line: the command it answers, the agent_id of the request and
\* what the client gets: a line with status "ok", a line with status
\* "error", a line without a status key ("no_status"), or no line because the
\* connection was closed ("closed").
Response(cmd, agent_id, reply) == [cmd |-> cmd, agent_id |-> agent_id, reply |-> reply]

\* A handler suspended in _stop_agent's wait_for.  attached: the AgentProcess
\* object it holds is still the registry's record of agent_id.  waited: the
\* child it waits for is the one the registry's record refers to
\* ("referenced"), or one no record refers to any more, alive ("live") or
\* not ("dead").
StopWait(cmd, agent_id, attached, waited) ==
    [cmd |-> cmd, agent_id |-> agent_id, attached |-> attached, waited |-> waited]

\* The mutable state the handlers share.
Daemon ==
    [agents |-> agents, state_file |-> state_file, waiting |-> waiting,
     orphans |-> orphans, monitor_tasks |-> monitor_tasks]

Becomes(d) ==
    /\ agents' = d.agents
    /\ state_file' = d.state_file
    /\ waiting' = d.waiting
    /\ orphans' = d.orphans
    /\ monitor_tasks' = d.monitor_tasks

DaemonIdle == UNCHANGED <<agents, state_file, waiting, orphans, monitor_tasks>>

\* The parts of the daemon's state no command handler but _cmd_shutdown touches.
lifevars == <<daemon_up, spec_exists, before_kill, socket_path, second_up>>

\* The handlers other than caller that are suspended on the agent id.
OthersWaiting(w, id, caller) ==
    {h \in Callers \ {caller} : w[h] # None /\ w[h][1].agent_id = id}

\* Some suspended handler waits for the child the record of id refers to.
Waited(w, id, caller) ==
    \E h \in OthersWaiting(w, id, caller) : w[h][1].waited = "referenced"

\* The record of id gets another process (detach = FALSE) or leaves the
\* registry (detach = TRUE): what the suspended handlers on id hold after it.
Unreference(w, id, caller, live, detach) ==
    [h \in Callers |->
        IF h \in OthersWaiting(w, id, caller) /\ w[h][1].attached
        THEN Some([w[h][1] EXCEPT
                      !.attached = IF detach THEN FALSE ELSE @,
                      !.waited = IF @ = "referenced"
                                 THEN (IF live THEN "live" ELSE "dead")
                                 ELSE @])
        ELSE w[h]]

\* _stop_agent, lines 643-682, for an agent without a live child: nothing is
\* terminated and exit_code is not assigned.
StopWithoutChild(d, agent_id, disk) ==
    LET ags == WithAgent(d.agents, agent_id, [d.agents[agent_id] EXCEPT !.status = STOPPED])
    IN  [d EXCEPT !.agents = ags,
                  !.monitor_tasks = @ \ {agent_id},
                  !.state_file = _save_state(ags, @, disk)]

\* _stop_agent, lines 649-657: terminate() is sent to the live child and the
\* caller is suspended in wait_for.
StopSuspends(d, caller, cmd, agent_id) ==
    [d EXCEPT !.waiting[caller] = Some(StopWait(cmd, agent_id, TRUE, "referenced"))]

\* _stop_agent, lines 658-682, after the wait: on a timeout the child is
\* killed; exit_code is read from the process the held object refers to now.
StopResumes(d, caller, timed_out, disk) ==
    LET rec == d.waiting[caller][1]
        id == rec.agent_id
        w == [d.waiting EXCEPT ![caller] = None]
    IN  IF ~rec.attached
        THEN [d EXCEPT !.waiting = w,
                       !.monitor_tasks = @ \ {id},
                       !.state_file = _save_state(d.agents, @, disk)]
        ELSE LET agent == d.agents[id]
                 process == IF rec.waited = "referenced" /\ Live(agent.process)
                            THEN Some(Popen(Some(IF timed_out THEN SIGKILL_RETURNCODE
                                                 ELSE SIGTERM_RETURNCODE)))
                            ELSE agent.process
                 ags == WithAgent(d.agents, id,
                            [agent EXCEPT !.process = process,
                                          !.exit_code = process[1].returncode,
                                          !.status = STOPPED])
             IN  [d EXCEPT !.agents = ags,
                           !.waiting = w,
                           !.monitor_tasks = @ \ {id},
                           !.state_file = _save_state(ags, @, disk)]

\* _cmd_remove, lines 457-458: the record is deleted and the state saved.  A
\* live child of the record that nobody waits for stays behind.
Delete(d, caller, agent_id, disk) ==
    LET live == Live(d.agents[agent_id].process)
        ags == WithoutAgent(d.agents, agent_id)
    IN  [d EXCEPT !.agents = ags,
                  !.waiting = Unreference(@, agent_id, caller, live, TRUE),
                  !.orphans = IF live /\ ~Waited(d.waiting, agent_id, caller)
                              THEN @ \cup {agent_id} ELSE @,
                  !.state_file = _save_state(ags, @, disk)]

\* What the start of the child does: the process is created; open() of the
\* log file or Popen raises OSError inside the try block (lines 605-641);
\* log_dir.mkdir raises OSError before the try block (line 582).
StartOutcomes == {"spawned", "popen_raises", "mkdir_raises"}

\* _do_start_agent, lines 547-641, on a registry that holds the agent: the
\* shared state it leaves and what the client gets.  An exception that
\* leaves the handler ends _handle_client: the connection is closed without
\* a response line.
_do_start_agent(d, caller, agent_id, cfg, outcome, disk) ==
    LET agent == d.agents[agent_id]
    IN  IF ~TruthyStr(cfg.spec_file) \/ ~TruthyStr(cfg.project_dir)
        THEN [d |-> d, reply |-> "error"]
        ELSE IF outcome = "mkdir_raises"
        THEN [d |-> d, reply |-> "closed"]
        ELSE IF outcome = "popen_raises"
        THEN LET ags == WithAgent(d.agents, agent_id, [agent EXCEPT !.status = FAILED])
             IN  [d |-> [d EXCEPT !.agents = ags,
                                  !.state_file = _save_state(ags, @, disk)],
                  reply |-> "error"]
        ELSE LET live == Live(agent.process)
                 ags == WithAgent(d.agents, agent_id,
                            [agent EXCEPT !.process = Some(Popen(None)),
                                          !.status = RUNNING])
             IN  [d |-> [d EXCEPT !.agents = ags,
                                  !.waiting = Unreference(@, agent_id, caller, live, FALSE),
                                  !.orphans = IF live /\ ~Waited(d.waiting, agent_id, caller)
                                              THEN @ \cup {agent_id} ELSE @,
                                  !.monitor_tasks = @ \cup {agent_id},
                                  !.state_file = _save_state(ags, @, disk)],
                  reply |-> "ok"]

\* The connection of client c is at readline: the daemon lives and no
\* handler of the connection is suspended.
AtReadline(c) == daemon_up /\ waiting[c] = None

\* AgentDaemon.start, lines 213-240: an existing socket path is unlinked and
\* bound anew; the registry is rebuilt from the state file; the cleaned
\* state is saved when a record was skipped.
StartDaemon(disk) ==
    /\ ~daemon_up
    /\ daemon_up' = TRUE
    /\ socket_path' = Some(FIRST_DAEMON)
    /\ agents' = load_state(state_file, spec_exists)
    /\ state_file' = IF state_file # None /\ Skipped(state_file[1], spec_exists) # {}
                     THEN _save_state(agents', state_file, disk)
                     ELSE state_file
    /\ before_kill' = EmptyRegistry
    /\ response' = None
    /\ shutdown_task' = None
    /\ UNCHANGED <<waiting, orphans, monitor_tasks, spec_exists, second_up, ovars, fvars>>

\* The agent ids with children that live on when the daemon process ends:
\* the children were started in sessions of their own (start_new_session,
\* line 620).
LeftBehind(ags, w) ==
    {id \in DOMAIN ags : Live(ags[id].process)}
        \cup {id \in AgentIds : \E h \in Callers : /\ w[h] # None
                                                   /\ w[h][1].agent_id = id
                                                   /\ w[h][1].waited = "live"}

\* The daemon process is killed: the registry and the tasks are lost, the
\* state file and the socket path stay.
KillDaemon ==
    /\ daemon_up
    /\ daemon_up' = FALSE
    /\ before_kill' = agents
    /\ agents' = EmptyRegistry
    /\ waiting' = NobodyWaits
    /\ monitor_tasks' = {}
    /\ orphans' = orphans \cup LeftBehind(agents, waiting)
    /\ response' = None
    /\ shutdown_task' = None
    /\ UNCHANGED <<state_file, spec_exists, socket_path, second_up, ovars, fvars>>

\* A second daemon process is started (AgentDaemon.start in another
\* process): it unlinks the socket path and binds it, and loads the state
\* file as the first does.  The model sends it no commands.
StartSecondDaemon ==
    /\ ~second_up
    /\ second_up' = TRUE
    /\ socket_path' = Some(SECOND_DAEMON)
    /\ state_file' = IF state_file # None /\ Skipped(state_file[1], spec_exists) # {}
                     THEN save_state(load_state(state_file, spec_exists))
                     ELSE state_file
    /\ UNCHANGED <<daemon_up, agents, spec_exists, before_kill, response, waiting,
                   orphans, monitor_tasks, shutdown_task, ovars, fvars>>

\* The second daemon process is killed; the socket path stays.
SecondDaemonKilled ==
    /\ second_up
    /\ second_up' = FALSE
    /\ UNCHANGED <<daemon_up, agents, state_file, spec_exists, before_kill, response,
                   waiting, orphans, monitor_tasks, shutdown_task, socket_path,
                   ovars, fvars>>

\* The request lines that are not one of the commands below: a line that is
\* not JSON; a JSON value that is not an object (request.get raises
\* AttributeError); an object without a string cmd; an unknown cmd; a
\* register, start, stop or remove without agent_id; ping.
OtherLines ==
    {"invalid_json", "not_an_object", "no_cmd", "unknown_cmd", "no_agent_id", "ping"}

\* _handle_client, lines 271-291, with _process_command, lines 293-311, on
\* one of the other lines.
_handle_client(c, line) ==
    /\ AtReadline(c)
    /\ response' = Response(line, None,
                     CASE line = "invalid_json" -> "no_status"
                       [] line = "not_an_object" -> "closed"
                       [] line = "ping" -> "ok"
                       [] OTHER -> "error")
    /\ DaemonIdle
    /\ UNCHANGED <<lifevars, shutdown_task, ovars, fvars>>

\* A plausible bug: the check for an id that is already registered is missing.
_cmd_register_unchecked(c, agent_id, cfg, disk) ==
    /\ AtReadline(c)
    /\ agents' = WithAgent(agents, agent_id,
                           AgentProcess(agent_id, cfg, None, READY, None))
    /\ state_file' = _save_state(agents', state_file, disk)
    /\ response' = Response("register", Some(agent_id), "ok")
    /\ UNCHANGED <<waiting, orphans, monitor_tasks>>
    /\ UNCHANGED <<lifevars, shutdown_task, ovars, fvars>>

_cmd_register(c, agent_id, cfg, disk) ==
    /\ AtReadline(c)
    /\ IF agent_id \in DOMAIN agents
       THEN /\ DaemonIdle
            /\ response' = Response("register", Some(agent_id), "error")
       ELSE /\ agents' = WithAgent(agents, agent_id,
                                   AgentProcess(agent_id, cfg, None, READY, None))
            /\ state_file' = _save_state(agents', state_file, disk)
            /\ response' = Response("register", Some(agent_id), "ok")
            /\ UNCHANGED <<waiting, orphans, monitor_tasks>>
    /\ UNCHANGED <<lifevars, shutdown_task, ovars, fvars>>

\* _cmd_start with _start_existing_agent and _start_agent.
_cmd_start(c, agent_id, cfg, outcome, disk) ==
    /\ AtReadline(c)
    /\ IF agent_id \in DOMAIN agents /\ agents[agent_id].status = RUNNING
       THEN /\ DaemonIdle
            /\ response' = Response("start", Some(agent_id), "error")
       ELSE LET entered ==
                    IF agent_id \in DOMAIN agents
                    THEN WithAgent(agents, agent_id,
                                   [agents[agent_id] EXCEPT !.config = cfg])
                    ELSE WithAgent(agents, agent_id,
                                   AgentProcess(agent_id, cfg, None, STARTING, None))
                done == _do_start_agent([Daemon EXCEPT !.agents = entered], c,
                                        agent_id, cfg, outcome, disk)
            IN  /\ Becomes(done.d)
                /\ response' = Response("start", Some(agent_id), done.reply)
    /\ UNCHANGED <<lifevars, shutdown_task, ovars, fvars>>

\* _cmd_stop up to its response or to the suspension in _stop_agent.
_cmd_stop(c, agent_id, disk) ==
    /\ AtReadline(c)
    /\ IF agent_id \notin DOMAIN agents
       THEN /\ DaemonIdle
            /\ response' = Response("stop", Some(agent_id), "error")
       ELSE IF Live(agents[agent_id].process)
       THEN /\ Becomes(StopSuspends(Daemon, c, "stop", agent_id))
            /\ UNCHANGED response
       ELSE /\ Becomes(StopWithoutChild(Daemon, agent_id, disk))
            /\ response' = Response("stop", Some(agent_id), "ok")
    /\ UNCHANGED <<lifevars, shutdown_task, ovars, fvars>>

\* _cmd_remove up to its response or to the suspension in _stop_agent.
_cmd_remove(c, agent_id, disk) ==
    /\ AtReadline(c)
    /\ IF agent_id \notin DOMAIN agents
       THEN /\ DaemonIdle
            /\ response' = Response("remove", Some(agent_id), "error")
       ELSE IF agents[agent_id].status = RUNNING /\ Live(agents[agent_id].process)
       THEN /\ Becomes(StopSuspends(Daemon, c, "remove", agent_id))
            /\ UNCHANGED response
       ELSE LET stopped == IF agents[agent_id].status = RUNNING
                           THEN StopWithoutChild(Daemon, agent_id, disk)
                           ELSE Daemon
            IN  /\ Becomes(Delete(stopped, c, agent_id, disk))
                /\ response' = Response("remove", Some(agent_id), "ok")
    /\ UNCHANGED <<lifevars, shutdown_task, ovars, fvars>>

\* The wait_for of a client handler suspended in _stop_agent ends, by the
\* child's exit or by the timeout, and the handler runs to its end:
\* _cmd_stop responds; _cmd_remove deletes the record (KeyError when another
\* handler deleted it) and responds.
_stop_agent(c, timed_out, disk) ==
    /\ daemon_up
    /\ c \in Clients
    /\ waiting[c] # None
    /\ LET rec == waiting[c][1]
           stopped == StopResumes(Daemon, c, timed_out, disk)
       IN  IF rec.cmd = "stop"
           THEN /\ Becomes(stopped)
                /\ response' = Response("stop", Some(rec.agent_id), "ok")
           ELSE IF rec.agent_id \in DOMAIN stopped.agents
           THEN /\ Becomes(Delete(stopped, c, rec.agent_id, disk))
                /\ response' = Response("remove", Some(rec.agent_id), "ok")
           ELSE /\ Becomes(stopped)
                /\ response' = Response("remove", Some(rec.agent_id), "closed")
    /\ UNCHANGED <<lifevars, shutdown_task, ovars, fvars>>

\* The child of an agent exits by itself.
ChildExits(agent_id) ==
    /\ agent_id \in DOMAIN agents
    /\ Live(agents[agent_id].process)
    /\ agents' = WithAgent(agents, agent_id,
                     [agents[agent_id] EXCEPT !.process = Some(Popen(Some(0)))])
    /\ UNCHANGED <<state_file, waiting, orphans, monitor_tasks, response, lifevars,
                   shutdown_task, ovars, fvars>>

\* The children of the agent id that nothing refers to have all exited.
OrphansExit(agent_id) ==
    /\ agent_id \in orphans
    /\ orphans' = orphans \ {agent_id}
    /\ UNCHANGED <<agents, state_file, waiting, monitor_tasks, response, lifevars,
                   shutdown_task, ovars, fvars>>

\* _monitor_agent, lines 684-709: the task of a started agent finds that the
\* process its record refers to has exited, records the exit and ends.
_monitor_agent(agent_id, disk) ==
    /\ daemon_up
    /\ agent_id \in monitor_tasks
    /\ agent_id \in DOMAIN agents
    /\ LET agent == agents[agent_id]
       IN  /\ agent.process # None
           /\ ~Live(agent.process)
           /\ agents' = WithAgent(agents, agent_id,
                            [agent EXCEPT !.exit_code = agent.process[1].returncode,
                                          !.status = STOPPED])
           /\ state_file' = _save_state(agents', state_file, disk)
           /\ monitor_tasks' = monitor_tasks \ {agent_id}
    /\ UNCHANGED <<waiting, orphans, response, lifevars, shutdown_task, ovars, fvars>>

\* The shutdown task: created, in the loop over the agents it listed when
\* it began, or at its end.
ShutdownTask(phase, remaining) == [phase |-> phase, remaining |-> remaining]

\* The orders in which a dict with the keys S lists them: the insertion
\* order, which is any order of S over the histories of the registry.
KeyOrders(S) ==
    {order \in [1..Cardinality(S) -> S] :
        \A i, j \in 1..Cardinality(S) : order[i] = order[j] => i = j}

\* _cmd_shutdown, lines 461-471: the task is created and the response sent.
_cmd_shutdown(c) ==
    /\ AtReadline(c)
    /\ shutdown_task' = IF shutdown_task = None THEN Some(ShutdownTask("created", <<>>))
                        ELSE shutdown_task
    /\ response' = Response("shutdown", None, "ok")
    /\ DaemonIdle
    /\ UNCHANGED <<lifevars, ovars, fvars>>

\* SIGTERM or SIGINT: the signal handler of line 237 creates the task.
SignalReceived ==
    /\ daemon_up
    /\ shutdown_task = None
    /\ shutdown_task' = Some(ShutdownTask("created", <<>>))
    /\ DaemonIdle
    /\ UNCHANGED <<response, lifevars, ovars, fvars>>

RECURSIVE shutdown_loop(_, _, _)

\* shutdown, lines 251-252, from the head of the listed ids: _stop_agent on
\* one agent after the other, up to the first call that suspends (the agent's
\* child is alive) or to the end of the list.  The shared state when the
\* task is suspended or through with the loop, and the ids still to do.
shutdown_loop(d, remaining, disk) ==
    IF remaining = <<>>
    THEN [d |-> d, remaining |-> remaining]
    ELSE IF Head(remaining) \notin DOMAIN d.agents
    THEN shutdown_loop(d, Tail(remaining), disk)
    ELSE IF Live(d.agents[Head(remaining)].process)
    THEN [d |-> StopSuspends(d, SHUTDOWN_TASK, "shutdown", Head(remaining)),
          remaining |-> Tail(remaining)]
    ELSE shutdown_loop(StopWithoutChild(d, Head(remaining), disk), Tail(remaining), disk)

\* The shutdown task runs from the state d: it is suspended in the loop, or
\* it goes through lines 254-269 (the monitor tasks are cancelled, the
\* server is closed, the socket path and the PID file are unlinked), after
\* which serve_forever ends and with it asyncio.run and the process.
ShutdownRuns(d, remaining, disk) ==
    LET run == shutdown_loop(d, remaining, disk)
    IN  IF run.d.waiting[SHUTDOWN_TASK] # None
        THEN /\ Becomes(run.d)
             /\ shutdown_task' = Some(ShutdownTask("stopping", run.remaining))
             /\ UNCHANGED <<response, lifevars>>
        ELSE /\ shutdown_task' = Some(ShutdownTask("done", <<>>))
             /\ daemon_up' = FALSE
             /\ socket_path' = None
             /\ before_kill' = run.d.agents
             /\ agents' = EmptyRegistry
             /\ state_file' = run.d.state_file
             /\ waiting' = NobodyWaits
             /\ monitor_tasks' = {}
             /\ orphans' = run.d.orphans \cup LeftBehind(run.d.agents, run.d.waiting)
             /\ response' = None
             /\ UNCHANGED <<spec_exists, second_up>>

\* shutdown, lines 242-252: the created task starts to run, sets the flag,
\* lists the keys of the registry and enters the loop.
shutdown(disk) ==
    /\ daemon_up
    /\ shutdown_task # None
    /\ shutdown_task[1].phase = "created"
    /\ \E order \in KeyOrders(DOMAIN agents) : ShutdownRuns(Daemon, order, disk)
    /\ UNCHANGED <<ovars, fvars>>

\* The wait_for of the _stop_agent the shutdown task is suspended in ends,
\* and the task goes on with its loop.
shutdown_resumes(timed_out, disk) ==
    /\ daemon_up
    /\ waiting[SHUTDOWN_TASK] # None
    /\ ShutdownRuns(StopResumes(Daemon, SHUTDOWN_TASK, timed_out, disk),
                    shutdown_task[1].remaining, disk)
    /\ UNCHANGED <<ovars, fvars>>

\* Somebody deletes the spec file the configs name.
SpecFileDeleted ==
    /\ spec_exists
    /\ spec_exists' = FALSE
    /\ UNCHANGED <<daemon_up, agents, state_file, before_kill, response, waiting,
                   orphans, monitor_tasks, shutdown_task, socket_path, second_up,
                   ovars, fvars>>

InitDaemon ==
    /\ NoDaemon
    /\ LoopIdle
    /\ NoCall

(***************************************************************************)
(* The daemon with one client: the commands one after the other, the       *)
(* daemon killed and restarted, the spec file deleted.                     *)
(***************************************************************************)
NextDaemon ==
    \/ StartDaemon("written")
    \/ KillDaemon
    \/ \E agent_id \in AgentIds, cfg \in StartConfigs :
          _cmd_register("c1", agent_id, cfg, "written")
    \/ \E agent_id \in AgentIds, cfg \in StartConfigs,
          outcome \in StartOutcomes :
          _cmd_start("c1", agent_id, cfg, outcome, "written")
    \/ \E agent_id \in AgentIds : _cmd_stop("c1", agent_id, "written")
    \/ \E agent_id \in AgentIds : _cmd_remove("c1", agent_id, "written")
    \/ _stop_agent("c1", FALSE, "written")
    \/ \E agent_id \in AgentIds : ChildExits(agent_id)
    \/ \E agent_id \in AgentIds : OrphansExit(agent_id)
    \/ \E agent_id \in AgentIds : _monitor_agent(agent_id, "written")
    \/ SpecFileDeleted

SpecDaemon == InitDaemon /\ [][NextDaemon]_vars

\* The same daemon with its event loop running: the monitor task of an
\* agent sleeps one second between two polls (line 692), so that a task
\* whose child has exited gets to record the exit unless it is cancelled or
\* the daemon ends first; the wait_for of _stop_agent ends within its five
\* seconds (line 656).
SpecMonitor ==
    /\ SpecDaemon
    /\ \A agent_id \in AgentIds : WF_vars(_monitor_agent(agent_id, "written"))
    /\ WF_vars(_stop_agent("c1", FALSE, "written"))

(***************************************************************************)
(* The daemon with one client, one agent and an environment that fails:    *)
(* the state file cannot be written, the child cannot be started, the      *)
(* request line is not a command.                                          *)
(***************************************************************************)
NextFaults ==
    \/ StartDaemon("written")
    \/ \E line \in OtherLines : _handle_client("c1", line)
    \/ \E agent_id \in OneAgent, cfg \in DaemonConfigs,
          disk \in DiskOutcomes :
          _cmd_register("c1", agent_id, cfg, disk)
    \/ \E agent_id \in OneAgent, cfg \in DaemonConfigs,
          outcome \in StartOutcomes, disk \in DiskOutcomes :
          _cmd_start("c1", agent_id, cfg, outcome, disk)
    \/ \E agent_id \in OneAgent, disk \in DiskOutcomes : _cmd_stop("c1", agent_id, disk)
    \/ \E agent_id \in OneAgent, disk \in DiskOutcomes : _cmd_remove("c1", agent_id, disk)
    \/ \E timed_out \in BOOLEAN, disk \in DiskOutcomes : _stop_agent("c1", timed_out, disk)
    \/ \E agent_id \in OneAgent : ChildExits(agent_id)
    \/ \E agent_id \in OneAgent, disk \in DiskOutcomes : _monitor_agent(agent_id, disk)

SpecFaults == InitDaemon /\ [][NextFaults]_vars

(***************************************************************************)
(* The daemon with two clients whose commands on one agent interleave with *)
(* each other and with the monitor task.                                   *)
(***************************************************************************)
NextRace ==
    \/ StartDaemon("written")
    \/ \E c \in Clients, agent_id \in OneAgent :
          _cmd_register(c, agent_id, ValidConfig, "written")
    \/ \E c \in Clients, agent_id \in OneAgent :
          _cmd_start(c, agent_id, ValidConfig, "spawned", "written")
    \/ \E c \in Clients, agent_id \in OneAgent : _cmd_stop(c, agent_id, "written")
    \/ \E c \in Clients, agent_id \in OneAgent : _cmd_remove(c, agent_id, "written")
    \/ \E c \in Clients, timed_out \in BOOLEAN : _stop_agent(c, timed_out, "written")
    \/ \E agent_id \in OneAgent : ChildExits(agent_id)
    \/ \E agent_id \in OneAgent : OrphansExit(agent_id)
    \/ \E agent_id \in OneAgent : _monitor_agent(agent_id, "written")

SpecRace == InitDaemon /\ [][NextRace]_vars

(***************************************************************************)
(* The daemon's life: started, shut down by command or signal while a      *)
(* client sends commands, started again, and a second daemon started on    *)
(* the same socket path.                                                   *)
(***************************************************************************)
NextShutdown ==
    \/ StartDaemon("written")
    \/ StartSecondDaemon
    \/ SecondDaemonKilled
    \/ \E agent_id \in AgentIds :
          _cmd_start("c1", agent_id, ValidConfig, "spawned", "written")
    \/ \E agent_id \in AgentIds : _cmd_stop("c1", agent_id, "written")
    \/ _cmd_shutdown("c1")
    \/ SignalReceived
    \/ shutdown("written")
    \/ shutdown_resumes(FALSE, "written")
    \/ _stop_agent("c1", FALSE, "written")
    \/ \E agent_id \in AgentIds : ChildExits(agent_id)
    \/ \E agent_id \in AgentIds : OrphansExit(agent_id)
    \/ \E agent_id \in AgentIds : _monitor_agent(agent_id, "written")

SpecShutdown == InitDaemon /\ [][NextShutdown]_vars

(***************************************************************************)
(* agent/core/hooks/security.py: the allow-list filter for Bash commands.  *)
(* A command string is a sequence of pieces: single characters, and two    *)
(* words, "ls" (in the allow-list) and "rm" (not in it), that stand for    *)
(* any word of letters.  A token, after shlex has removed the quotes, is a *)
(* sequence of pieces too.                                                 *)
(***************************************************************************)
\* The pieces of the commands.  None of them is the null byte, and no
\* command of the model is longer than MAX_COMMAND_LENGTH, so that the
\* hook's check of lines 151-152 passes for every command of the model.  The
\* piece "backtick" is the back-tick character.
Pieces == {"ls", "rm", " ", "\n", "\"", ";", "|", "&", "-", "=", "!", "/",
           "$", "(", "backtick", "<", "#"}

\* The longest command string, in pieces.
MaxCommandLen == 4

Commands == UNION {[1..n -> Pieces] : n \in 1..MaxCommandLen}

\* ALLOWED_COMMANDS, of the tokens of the model.
ALLOWED_COMMANDS == {<<"ls">>, <<"pkill">>}

\* _SHELL_OPERATORS.
_SHELL_OPERATORS == {<<"|">>, <<"|", "|">>, <<"&", "&">>, <<"&">>}

\* _SHELL_KEYWORDS, of the tokens of the model.
_SHELL_KEYWORDS == {<<"!">>}

\* The characters shlex takes for whitespace.
Whitespace == {" ", "\n"}

RECURSIVE semicolon_split(_, _, _, _)

\* _SEMICOLON_SPLIT_PATTERN.split(command_string) from position i on: the
\* pattern matches a semicolon, with the whitespace around it, when the
\* character just before the match is no quote and the character just after
\* it is no quote.  Its \s* give whitespace back, so the match fails only for
\* a semicolon that touches a quote.  The whitespace the match takes stays
\* in the segments here: the caller strips them.
semicolon_split(s, i, segments, segment) ==
    IF i > Len(s)
    THEN Append(segments, segment)
    ELSE IF /\ s[i] = ";"
            /\ (i = 1 \/ s[i - 1] # "\"")
            /\ (i = Len(s) \/ s[i + 1] # "\"")
    THEN semicolon_split(s, i + 1, Append(segments, segment), <<>>)
    ELSE semicolon_split(s, i + 1, segments, Append(segment, s[i]))

RECURSIVE shlex_read(_, _, _, _, _)

\* shlex in POSIX mode with whitespace_split, from position i on: token is
\* the token being read, if any; quoted says that a quote is open.  None for
\* the ValueError of a quote that is not closed.
shlex_read(s, i, tokens, token, quoted) ==
    IF i > Len(s)
    THEN IF quoted THEN None ELSE Some(tokens \o token)
    ELSE IF quoted
    THEN IF s[i] = "\""
         THEN shlex_read(s, i + 1, tokens, token, FALSE)
         ELSE shlex_read(s, i + 1, tokens, Some(Append(token[1], s[i])), TRUE)
    ELSE IF s[i] = "\""
    THEN shlex_read(s, i + 1, tokens, IF token = None THEN Some(<<>>) ELSE token, TRUE)
    ELSE IF s[i] \in Whitespace
    THEN shlex_read(s, i + 1, tokens \o token, None, FALSE)
    ELSE shlex_read(s, i + 1, tokens,
                    Some(Append(IF token = None THEN <<>> ELSE token[1], s[i])), FALSE)

\* _safe_shlex_split: the tokens, or None when parsing failed.
_safe_shlex_split(command_string) == shlex_read(command_string, 1, <<>>, None, FALSE)

\* token.startswith("-")
IsFlag(token) == token # <<>> /\ token[1] = "-"

\* "=" in token and not token.startswith("=")
IsAssignment(token) ==
    /\ \E i \in 1..Len(token) : token[i] = "="
    /\ token[1] # "="

RECURSIVE basename(_)

\* os.path.basename: what follows the last slash.
basename(token) ==
    IF \E i \in 1..Len(token) : token[i] = "/"
    THEN basename(Tail(token))
    ELSE token

RECURSIVE commands_of_tokens(_, _, _)

\* The loop over the tokens of one segment, _extract_commands lines 293-316.
commands_of_tokens(tokens, expect_command, commands) ==
    IF tokens = <<>>
    THEN commands
    ELSE IF Head(tokens) \in _SHELL_OPERATORS
    THEN commands_of_tokens(Tail(tokens), TRUE, commands)
    ELSE IF \/ Head(tokens) \in _SHELL_KEYWORDS
            \/ IsFlag(Head(tokens))
            \/ IsAssignment(Head(tokens))
    THEN commands_of_tokens(Tail(tokens), expect_command, commands)
    ELSE IF expect_command
    THEN commands_of_tokens(Tail(tokens), FALSE, Append(commands, basename(Head(tokens))))
    ELSE commands_of_tokens(Tail(tokens), FALSE, commands)

RECURSIVE commands_of_segments(_, _)

\* The loop over the segments, _extract_commands lines 275-316: the empty
\* list as soon as one segment does not parse.
commands_of_segments(segments, commands) ==
    IF segments = <<>>
    THEN commands
    ELSE IF _safe_shlex_split(Head(segments)) = None
    THEN <<>>
    ELSE commands_of_segments(Tail(segments),
             commands_of_tokens(_safe_shlex_split(Head(segments))[1], TRUE, commands))

_extract_commands(command_string) ==
    commands_of_segments(semicolon_split(command_string, 1, <<>>, <<>>), <<>>)

\* The marks of a command substitution, line 155: "$(" in command, a
\* back-tick in command, or "<(" in command.
HasSubstitution(command) ==
    \E i \in 1..Len(command) :
       \/ command[i] = "backtick"
       \/ i < Len(command) /\ command[i] \in {"$", "<"} /\ command[i + 1] = "("

RECURSIVE and_or_split(_, _, _, _)

\* re.split of line 237 from position i on: the pattern matches "&&" and
\* "||" wherever they stand, inside quotes too.  The whitespace the match
\* takes stays in the segments here: the caller strips them.
and_or_split(s, i, segments, segment) ==
    IF i > Len(s)
    THEN Append(segments, segment)
    ELSE IF i < Len(s) /\ s[i] \in {"&", "|"} /\ s[i + 1] = s[i]
    THEN and_or_split(s, i + 2, Append(segments, segment), <<>>)
    ELSE and_or_split(s, i + 1, segments, Append(segment, s[i]))

\* sub.strip() is empty.
IsBlank(sub) == \A i \in 1..Len(sub) : sub[i] \in Whitespace

RECURSIVE semicolon_split_each(_)

\* The loop of lines 246-251 without the strip.
semicolon_split_each(segments) ==
    IF segments = <<>>
    THEN <<>>
    ELSE semicolon_split(Head(segments), 1, <<>>, <<>>) \o semicolon_split_each(Tail(segments))

\* _split_command_segments, lines 223-253.  The segments keep the whitespace
\* around them, which shlex skips.
_split_command_segments(command_string) ==
    LET NotBlank(sub) == ~IsBlank(sub)
    IN  SelectSeq(semicolon_split_each(and_or_split(command_string, 1, <<>>, <<>>)), NotBlank)

\* _get_command_for_validation, lines 321-336: the first segment whose
\* commands hold cmd, or the empty string.
_get_command_for_validation(cmd, segments) ==
    LET Holds(segment) == \E i \in 1..Len(_extract_commands(segment)) :
                              _extract_commands(segment)[i] = cmd
        found == SelectSeq(segments, Holds)
    IN  IF found = <<>> THEN <<>> ELSE Head(found)

\* allowed_process_names of _validate_pkill_command, of the words of the model.
allowed_process_names == {<<"node">>}

RECURSIVE first_word(_, _)

\* target.split()[0], or None for the IndexError of a target of whitespace.
first_word(target, word) ==
    IF target = <<>>
    THEN IF word = <<>> THEN None ELSE Some(word)
    ELSE IF Head(target) \in Whitespace
    THEN IF word = <<>> THEN first_word(Tail(target), word) ELSE Some(word)
    ELSE first_word(Tail(target), Append(word, Head(target)))

\* The process name an argument of pkill stands for, lines 399-400.
pkill_target(arg) ==
    IF \E i \in 1..Len(arg) : arg[i] = " "
    THEN first_word(arg, <<>>)
    ELSE Some(arg)

\* _validate_pkill_command, lines 360-404: "allow", "deny", or "raise" for
\* the IndexError of line 400.
_validate_pkill_command(command_string) ==
    LET tokens == _safe_shlex_split(command_string)
        NotFlag(token) == ~IsFlag(token)
    IN  IF tokens = None \/ tokens = Some(<<>>)
        THEN "deny"
        ELSE LET args == SelectSeq(Tail(tokens[1]), NotFlag)
             IN  IF args = <<>>
                 THEN "deny"
                 ELSE IF pkill_target(args[Len(args)]) = None
                 THEN "raise"
                 ELSE IF pkill_target(args[Len(args)])[1] \in allowed_process_names
                 THEN "allow"
                 ELSE "deny"

RECURSIVE check_commands(_, _)

\* The loop of lines 170-196 over the extracted commands; of the commands
\* needing extra validation the model has pkill.
check_commands(commands, segments) ==
    IF commands = <<>>
    THEN "allow"
    ELSE IF Head(commands) \notin ALLOWED_COMMANDS
    THEN "deny"
    ELSE IF Head(commands) # <<"pkill">>
    THEN check_commands(Tail(commands), segments)
    ELSE IF _get_command_for_validation(Head(commands), segments) = <<>>
    THEN "deny"
    ELSE IF _validate_pkill_command(
                _get_command_for_validation(Head(commands), segments)) = "allow"
    THEN check_commands(Tail(commands), segments)
    ELSE _validate_pkill_command(_get_command_for_validation(Head(commands), segments))

\* _bash_security_hook for the tool Bash and a command of the model:
\* "allow", "deny", or "raise" when an exception leaves the hook.
_bash_security_hook(command) ==
    IF HasSubstitution(command)
    THEN "deny"
    ELSE IF _extract_commands(command) = <<>>
    THEN "deny"
    ELSE check_commands(_extract_commands(command), _split_command_segments(command))

InitFilter ==
    /\ call \in {Some(command) : command \in Commands}
    /\ returned = None
    /\ LoopIdle
    /\ NoDaemon

call_bash_security_hook ==
    /\ call # None
    /\ returned = None
    /\ returned' = Some(_bash_security_hook(call[1]))
    /\ UNCHANGED <<call, ovars, dvars>>

SpecFilter == InitFilter /\ [][call_bash_security_hook]_vars

\* The pieces of the commands that kill processes: "node" is a process
\* name _validate_pkill_command allows, "bash" is one it does not allow.
PkillPieces == {"pkill", "node", "bash", " ", ";", "&"}

\* The longest command string with pkill, in pieces.
MaxPkillLen == 7

InitSensitive ==
    /\ call \in {Some(command) :
                    command \in UNION {[1..n -> PkillPieces] : n \in 1..MaxPkillLen}}
    /\ returned = None
    /\ LoopIdle
    /\ NoDaemon

\* The hook called on the commands with pkill.
SpecSensitive == InitSensitive /\ [][call_bash_security_hook]_vars

\* The pieces of one pkill segment: flags, quotes, names.
TargetPieces == {"pkill", "node", "bash", " ", "-", "\""}

\* The longest pkill segment, in pieces.
MaxSegmentLen == 6

InitPkill ==
    /\ call \in {Some(segment) :
                    segment \in UNION {[1..n -> TargetPieces] : n \in 1..MaxSegmentLen}}
    /\ returned = None
    /\ LoopIdle
    /\ NoDaemon

call_validate_pkill_command ==
    /\ call # None
    /\ returned = None
    /\ returned' = Some(_validate_pkill_command(call[1]))
    /\ UNCHANGED <<call, ovars, dvars>>

SpecPkill == InitPkill /\ [][call_validate_pkill_command]_vars

(***************************************************************************)
(* agent/daemon/server.py: _load_state on the daemon_state.json documents  *)
(* a daemon may have left, with the spec file present or gone.             *)
(***************************************************************************)
\* The documents with at most one record for each agent id, of any config
\* and status.
StoredRegistries ==
    LET Stored(id) == {StoredAgent(AgentProcess(id, cfg, None, st, None)) :
                          cfg \in DaemonConfigs,
                          st \in {STARTING, RUNNING, STOPPED, FAILED, READY}}
    IN  UNION {[ids -> UNION {Stored(id) : id \in ids}] : ids \in SUBSET AgentIds}

InitRestore ==
    /\ call \in {Some([stored |-> stored, exists |-> exists]) :
                    stored \in {r \in StoredRegistries : \A id \in DOMAIN r : r[id].agent_id = id},
                    exists \in BOOLEAN}
    /\ returned = None
    /\ LoopIdle
    /\ NoDaemon

\* _load_state, lines 204-211, with _restore_agents_from_state: the registry
\* and the state file it leaves when the write succeeds.
call_load_state ==
    /\ call # None
    /\ returned = None
    /\ LET restored == load_state(Some(call[1].stored), call[1].exists)
       IN  returned' = Some([agents |-> restored,
                             state_file |-> IF Skipped(call[1].stored, call[1].exists) # {}
                                            THEN _save_state(restored, Some(call[1].stored), "written")
                                            ELSE Some(call[1].stored)])
    /\ UNCHANGED <<call, ovars, dvars>>

SpecRestore == InitRestore /\ [][call_load_state]_vars

(***************************************************************************)
(* The claims.                                                             *)
(***************************************************************************)
HasPending(log) == \E i \in 1..Len(AllRecords(log)) : AllRecords(log)[i].status = PENDING

\* C1: the loop never starts a session (creates the client) while the
\* checkpoint log holds a record with status pending.
C1_NoSessionWhilePending == pc = "open" => ~HasPending(checkpoint_log)

\* The record _wait_for_approval is waiting on has been resolved as rejected.
WaitedRejected ==
    /\ checkpoint # None
    /\ \E i \in 1..Len(AllRecords(checkpoint_log)) :
          /\ AllRecords(checkpoint_log)[i].checkpoint_id = checkpoint[1]
          /\ AllRecords(checkpoint_log)[i].status = REJECTED
          /\ AllRecords(checkpoint_log)[i].completed

\* C2: when the record the poll loop waits on has been resolved as rejected
\* (completed=true), the poll loop is left only by terminating the loop, never
\* towards another session.
C2_RejectedEndsLoop ==
    [][(pc = "poll" /\ WaitedRejected /\ pc' # "poll") => pc' = "final"]_vars

\* Some record of the type has status approved and no record of the type has
\* a later created_at.
LatestApproved(log, type) ==
    \E i \in 1..Len(AllRecords(log)) :
        /\ AllRecords(log)[i].checkpoint_type = type
        /\ AllRecords(log)[i].status = APPROVED
        /\ \A j \in 1..Len(AllRecords(log)) :
              AllRecords(log)[j].checkpoint_type = type
                  => AllRecords(log)[j].created_at <= AllRecords(log)[i].created_at

\* C3: a session of phase MR_CREATION is started only if, at the decision, the
\* loaded milestone has all_issues_closed and the latest MR_PHASE_TRANSITION
\* record of the log is approved.
C3_MrCreationGated ==
    [][(pc = "decide" /\ pc' = "open" /\ session_type' = MR_CREATION)
          => /\ all_issues_closed(state)
             /\ LatestApproved(checkpoint_log, MR_PHASE_TRANSITION)]_vars

\* An MR_CREATION session has been started on a log with two
\* MR_PHASE_TRANSITION records.
C3_Witness ==
    /\ pc = "open"
    /\ session_type = MR_CREATION
    /\ Len(AllRecords(checkpoint_log)) >= 2
    /\ \A i \in 1..Len(AllRecords(checkpoint_log)) :
          AllRecords(checkpoint_log)[i].checkpoint_type = MR_PHASE_TRANSITION

\* The spec's decision table of determinePhase.
DecisionTable(initialized, closed, skip_mr_creation, approved) ==
    IF ~initialized THEN INITIALIZER
    ELSE IF closed /\ ~skip_mr_creation /\ approved THEN MR_CREATION
    ELSE CODING

\* C4: every call of determine_session_type returns the phase of the decision
\* table, whether or not a state repository and a project directory are passed.
C4_PhaseTable ==
    returned # None =>
        returned[1] = DecisionTable(is_initialized(call[1].state),
                                    all_issues_closed(call[1].state),
                                    call[1].skip_mr_creation,
                                    is_checkpoint_type_approved(call[1].log,
                                                                MR_PHASE_TRANSITION))

\* The run's milestone document has milestone_closed=true.
MilestoneClosed ==
    /\ milestone_file[RunMilestoneFile] # None
    /\ milestone_file[RunMilestoneFile][1].milestone_closed

\* C5: no session is started once the run's milestone document has
\* milestone_closed=true, whatever the workspace document and the log hold.
C5_NoSessionAfterMilestoneClosed == pc = "open" => ~MilestoneClosed

\* The entry's llm_judgment.decision is "needs_enrichment".
NeedsEnrichment(issue_data) ==
    /\ issue_data.llm_judgment # None
    /\ issue_data.llm_judgment[1].decision = Some("needs_enrichment")

NeedsEnrichmentWithIid(issue_data) ==
    NeedsEnrichment(issue_data) /\ issue_data.issue_iid # None

\* The issue_iid values (null or a number) of a list of entries, in order.
IidsOf(entries) == [i \in 1..Len(entries) |-> entries[i].issue_iid]

AllIssues(ckpt) ==
    IF ckpt.context.all_issues_with_judgments = None THEN <<>>
    ELSE ckpt.context.all_issues_with_judgments[1]

\* The record of the given id is approved and completed, and its
\* modifications.selected_issue_iids are the values iids.
ApprovedWithIids(log, id, iids) ==
    \E i \in 1..Len(AllRecords(log)) :
        LET r == AllRecords(log)[i]
        IN  /\ r.checkpoint_id = id
            /\ r.status = APPROVED
            /\ r.completed
            /\ r.modifications # None
            /\ r.modifications[1].selected_issue_iids # None
            /\ [k \in 1..Len(r.modifications[1].selected_issue_iids[1]) |->
                    Some(r.modifications[1].selected_issue_iids[1][k])] = iids

\* The cycle's _handle_pending_checkpoint finds a pending ISSUE_ENRICHMENT
\* record while the workspace document has auto_accept=true.
AutoEnrichmentCycle ==
    /\ pc = "pending"
    /\ pc' # "pending"
    /\ workspace_file # None
    /\ workspace_file[1].auto_accept
    /\ load_pending_checkpoint(checkpoint_log) # None
    /\ load_pending_checkpoint(checkpoint_log)[1].checkpoint_type = ISSUE_ENRICHMENT
    /\ load_pending_checkpoint(checkpoint_log)[1].status = PENDING

C7_NoSessionAfterStop ==
    [][(IsSet(stop_event) /\ pc # "open") => pc' # "open"]_vars

\* C8: an exception of the SDK never terminates the loop.
C8_SdkErrorNeverEndsLoop == pc # "raised"

\* C9: with max_iterations set to n, a session is only started in an iteration
\* numbered at most n.
C9_AtMostMaxIterations ==
    (config.max_iterations # None /\ pc = "open") => iteration <= config.max_iterations[1]

\* The stored record's spec file is not missing.
SpecFileKept(agent) == ~(TruthyStr(agent.config.spec_file) /\ ~spec_exists)

\* C10: a restart restores every agent with process=null and none as running;
\* the agents of the registry before the kill whose spec file still exists
\* come back under the same ids, running as stopped, every other status kept.
C10_RestartKeepsAgents ==
    [][(~daemon_up /\ daemon_up') =>
          /\ \A id \in DOMAIN agents' :
                agents'[id].process = None /\ agents'[id].status # RUNNING
          /\ DOMAIN agents' = {id \in DOMAIN before_kill : SpecFileKept(before_kill[id])}
          /\ \A id \in DOMAIN agents' :
                agents'[id].status = IF before_kill[id].status = RUNNING THEN STOPPED
                                     ELSE before_kill[id].status]_vars

\* A response to register, start, stop or remove is sent in this step.  (A
\* response equal to the one sent before it is not told apart from none.)
RegistryCommands == {"register", "start", "stop", "remove"}

Responds(cmd, agent_id, reply) ==
    response' = Response(cmd, Some(agent_id), reply) /\ response' # response

\* daemon_state.json holds the agents, configs and statuses of the registry
\* ags; an absent file holds no agents.
FileHolds(file, ags) ==
    \/ file = save_state(ags)
    \/ file = None /\ ags = EmptyRegistry

\* C11: when the daemon sends the response to a register, start, stop or
\* remove command, ok or error, the state file holds exactly the registry.
C11_ReadYourWrites ==
    [][\A cmd \in RegistryCommands, agent_id \in AgentIds, reply \in {"ok", "error"} :
          Responds(cmd, agent_id, reply) => FileHolds(state_file', agents')]_vars

\* The agent id has a live child its record refers to.
HasLiveChild(ags, id) == id \in DOMAIN ags /\ Live(ags[id].process)

\* The agent id has a live child that no record refers to.
HasLiveStray(strays, w, id) ==
    \/ id \in strays
    \/ \E h \in Callers : w[h] # None /\ w[h][1].agent_id = id /\ w[h][1].waited = "live"

\* C12: under every interleaving of commands and monitor tasks no agent id
\* has two live child processes.
C12_OneLiveChildPerAgent ==
    \A id \in AgentIds : ~(HasLiveChild(agents, id) /\ HasLiveStray(orphans, waiting, id))

\* C13: when a stop command returns ok for an agent of the registry, the
\* agent has no live child and the status stopped, and the state file holds
\* the registry; when the command terminated a child, the exit code recorded
\* is that of the agent's process.
C13_StopLeavesNoChild ==
    [][\A agent_id \in AgentIds :
          (Responds("stop", agent_id, "ok") /\ agent_id \in DOMAIN agents') =>
             /\ ~Live(agents'[agent_id].process)
             /\ agents'[agent_id].status = STOPPED
             /\ FileHolds(state_file', agents')
             /\ (\E c \in Clients : waiting[c] # None /\ waiting'[c] = None) =>
                    agents'[agent_id].exit_code = agents'[agent_id].process[1].returncode]_vars

\* C14: after a remove command returns ok, the agent id is in neither the
\* registry nor the state file and no child started for it is alive.
C14_RemoveLeavesNothing ==
    [][\A agent_id \in AgentIds :
          Responds("remove", agent_id, "ok") =>
             /\ agent_id \notin DOMAIN agents'
             /\ state_file' # None => agent_id \notin DOMAIN state_file'[1]
             /\ ~HasLiveStray(orphans', waiting', agent_id)]_vars

ShutdownCompletes ==
    /\ shutdown_task # None
    /\ shutdown_task[1].phase # "done"
    /\ shutdown_task' = Some(ShutdownTask("done", <<>>))

\* A client's handler has sent terminate() to the child the record of id
\* refers to and waits for it.
TerminationAttempted(id) ==
    \E c \in Clients : /\ waiting[c] # None
                        /\ waiting[c][1].agent_id = id
                        /\ waiting[c][1].waited = "referenced"

\* C16: when the shutdown completes, no child the daemon started is alive
\* without a termination attempt: no child that no record refers to, and
\* no child of a record of the registry the daemon ends with.
C16_ShutdownAbandonsNoChild ==
    [][ShutdownCompletes =>
          \A id \in AgentIds :
             /\ id \notin orphans
             /\ HasLiveChild(before_kill', id) => TerminationAttempted(id)]_vars

\* C17: while a daemon is alive and bound to the socket path, the path stays
\* bound to it: the start of another daemon does not take it over.
C17_SocketIsSingleton ==
    [][/\ (daemon_up /\ daemon_up' /\ socket_path = Some(FIRST_DAEMON))
             => socket_path' = socket_path
       /\ (second_up /\ second_up' /\ socket_path = Some(SECOND_DAEMON))
             => socket_path' = socket_path]_vars

\* C18: every request line is answered with a line that carries status ok or
\* error.
C18_EveryLineAnswered ==
    response # None => response.reply \in {"ok", "error"}

\* C19: a start command with a complete config for an agent that is not
\* running either starts the child, or the agent's status becomes failed,
\* the state is persisted and an error is returned.
C19_SpawnFailureHandled ==
    [][\A agent_id \in AgentIds :
          (/\ response' # None
           /\ response' # response
           /\ response'.cmd = "start"
           /\ response'.agent_id = Some(agent_id)
           /\ ~(agent_id \in DOMAIN agents /\ agents[agent_id].status = RUNNING)
           /\ agents'[agent_id].config = ValidConfig)
             => \/ response'.reply = "ok" /\ agents'[agent_id].status = RUNNING
                \/ /\ response'.reply = "error"
                   /\ agents'[agent_id].status = FAILED
                   /\ state_file' = save_state(agents')]_vars

\* The unquoted characters that separate the commands of a Bash command
\* string: ; and newline, and the characters of &&, ||, | and &.
CommandSeparators == {";", "|", "&", "\n"}

\* The position of the first newline of s from position i on, or the
\* position after the end of s.
EndOfLine(s, i) ==
    IF \E j \in i..Len(s) : s[j] = "\n"
    THEN CHOOSE j \in i..Len(s) : s[j] = "\n" /\ \A k \in i..(j - 1) : s[k] # "\n"
    ELSE Len(s) + 1

RECURSIVE SplitUnquoted(_, _, _, _, _)

\* The pieces of the string s between its unquoted command separators, from
\* position i on; none when a quote stays open.  An unquoted # at the start
\* of a word begins a comment, which the shell drops up to the end of the
\* line.
SplitUnquoted(s, i, parts, part, quoted) ==
    IF i > Len(s)
    THEN IF quoted THEN <<>> ELSE Append(parts, part)
    ELSE IF s[i] = "\""
    THEN SplitUnquoted(s, i + 1, parts, Append(part, s[i]), ~quoted)
    ELSE IF ~quoted /\ s[i] \in CommandSeparators
    THEN SplitUnquoted(s, i + 1, Append(parts, part), <<>>, FALSE)
    ELSE IF ~quoted /\ s[i] = "#" /\ (part = <<>> \/ part[Len(part)] = " ")
    THEN SplitUnquoted(s, EndOfLine(s, i), parts, part, FALSE)
    ELSE SplitUnquoted(s, i + 1, parts, Append(part, s[i]), quoted)

RECURSIVE FirstCommandWord(_)

\* The first word that is no keyword, no assignment and no flag, if any.
FirstCommandWord(words) ==
    IF words = <<>>
    THEN None
    ELSE IF \/ Head(words) \in _SHELL_KEYWORDS
            \/ IsAssignment(Head(words))
            \/ IsFlag(Head(words))
    THEN FirstCommandWord(Tail(words))
    ELSE Some(Head(words))

\* The base names of the commands of a Bash command string.
ShellCommands(command) ==
    LET parts == SplitUnquoted(command, 1, <<>>, <<>>, FALSE)
    IN  {basename(FirstCommandWord(_safe_shlex_split(parts[i])[1])[1]) :
            i \in {j \in 1..Len(parts) :
                      FirstCommandWord(_safe_shlex_split(parts[j])[1]) # None}}

\* C20: when the filter allows a command string, the base name of every
\* command in it is in the allow-list.
C20_AllowedMeansAllListed ==
    (returned # None /\ returned[1] = "allow")
        => ShellCommands(call[1]) \subseteq ALLOWED_COMMANDS

\* The words of a Bash command string: the words of its commands.
ShellWords(command) ==
    LET parts == SplitUnquoted(command, 1, <<>>, <<>>, FALSE)
    IN  UNION {{_safe_shlex_split(parts[i])[1][j] :
                   j \in 1..Len(_safe_shlex_split(parts[i])[1])} : i \in 1..Len(parts)}

\* C21: a command string the filter allows holds no mark of a command
\* substitution, and one of its shell words has a base name of the
\* allow-list.
C21_AllowedHasListedWord ==
    (returned # None /\ returned[1] = "allow")
        => /\ ~HasSubstitution(call[1])
           /\ \E word \in ShellWords(call[1]) : basename(word) \in ALLOWED_COMMANDS

\* The file holds no JSON object: it is missing, unreadable, not decodable,
\* not well-formed JSON, or a JSON value that is no object.
NoObject(file) == file.kind \in {"missing", "unreadable", "undecodable", "malformed", "array"}

\* The sub-record of a file: null when the file holds no JSON object, the
\* object's document when it holds one with keys.
SubRecordOf(file, sub) ==
    /\ NoObject(file) => sub = None
    /\ file.kind = "object" => sub = file.doc

\* C22: load never raises; each of the three documents is loaded on its own
\* (null, or the empty log, for a file that holds no JSON object), and the
\* derived properties are false for a null sub-record.
C22_LoadNeverRaises ==
    returned # None =>
        /\ ~returned[1].raised
        /\ LET st == returned[1].state[1]
               mfile == IF file_only_mode(st) THEN FILE_MILESTONE_FILE
                        ELSE GITLAB_MILESTONE_FILE
           IN  /\ SubRecordOf(call[1].workspace, st.workspace)
               /\ SubRecordOf(call[1].milestone[mfile], st.milestone)
               /\ NoObject(call[1].log) => st.checkpoint_log = EmptyLog
               /\ call[1].log.kind = "object" => st.checkpoint_log = call[1].log.doc[1]
               /\ st.workspace = None => ~auto_accept(st) /\ ~file_only_mode(st)
               /\ st.milestone = None => ~is_initialized(st) /\ ~all_issues_closed(st)

\* The records of the given type with the greatest created_at of their
\* type, in all scopes of the log.
LatestOfType(log, checkpoint_type) ==
    LET of_type == {r \in {AllRecords(log)[i] : i \in 1..Len(AllRecords(log))} :
                       r.checkpoint_type = checkpoint_type}
    IN  {r \in of_type : \A q \in of_type : q.created_at <= r.created_at}

\* C23: is_checkpoint_type_approved is true only if a record with the
\* greatest created_at of the type is approved, and false only if there is
\* no record of the type or a record with the greatest created_at of the
\* type is not approved: with one latest record, true if and only if that
\* record is approved.
C23_LatestOfTypeDecides ==
    returned # None =>
        LET latest == LatestOfType(call[1].log, call[1].checkpoint_type)
        IN  /\ returned[1] => \E r \in latest : r.status = APPROVED
            /\ ~returned[1] => latest = {} \/ \E r \in latest : r.status # APPROVED

\* An approval of the type is followed by a later record of the type that
\* is not approved, and the answer is false.
C23_Witness ==
    /\ returned = Some(FALSE)
    /\ \E i \in 1..Len(AllRecords(call[1].log)) :
          /\ AllRecords(call[1].log)[i].checkpoint_type = call[1].checkpoint_type
          /\ AllRecords(call[1].log)[i].status = APPROVED
          /\ AllRecords(call[1].log)[i].created_at = 1
    /\ \A r \in LatestOfType(call[1].log, call[1].checkpoint_type) :
          r.created_at = 2 /\ r.status # APPROVED

\* Every character outside [a-z0-9] becomes a hyphen: after collapse, every
\* maximal run of such characters is one hyphen.
RunsToHyphens(s) == [i \in 1..Len(s) |-> IF s[i] \in {"a", "b", "7"} THEN s[i] ELSE "-"]

\* The slug of the specification's text: the name without its extension,
\* in lowercase, every maximal run of characters outside [a-z0-9] replaced
\* by one hyphen, the hyphens at both ends trimmed, "default" if nothing is
\* left.
SlugReference(name) ==
    LET slug == strip(collapse(RunsToHyphens(lower(stem(name)))))
    IN  IF slug = <<>> THEN <<"default">> ELSE slug

\* C25: spec_filename_to_slug equals the reference function of the
\* specification.
C25_SlugIsReference ==
    returned # None => returned[1] = SlugReference(call[1])

\* C24: a call of initialize_agent_workspace that follows a call with the
\* same arguments leaves the disk as it found it.
C24_InitializeIdempotent ==
    [][(call # None /\ call[1].calls >= 1 /\ call' # call) => returned' = returned]_vars

\* No step writes the record of the agent: it stays in or out of the
\* registry, with its status, exit_code and config.
RecordUntouched(id) ==
    /\ id \in DOMAIN agents <=> id \in DOMAIN agents'
    /\ id \in DOMAIN agents =>
          /\ agents'[id].status = agents[id].status
          /\ agents'[id].exit_code = agents[id].exit_code
          /\ agents'[id].config = agents[id].config

\* C26: while a command handler is between its first read and its last
\* write of an agent's record (it is suspended in _stop_agent), no step of
\* another handler or of a monitor task writes that record.
C26_HandlersAtomic ==
    [][\A c \in Clients :
          (waiting[c] # None /\ waiting'[c] # None)
             => RecordUntouched(waiting[c][1].agent_id)]_vars

\* The stored record names a spec file.
NamesSpecFile(rec) == TruthyStr(rec.config.spec_file)

ExitedByItself(id) ==
    /\ id \in DOMAIN agents
    /\ agents[id].status = RUNNING
    /\ agents[id].process = Some(Popen(Some(0)))

\* The registry and the state file show the agent stopped with the return
\* code of the child that exited by itself.
ExitRecorded(id) ==
    /\ id \in DOMAIN agents
    /\ agents[id].status = STOPPED
    /\ agents[id].exit_code = Some(0)
    /\ state_file = save_state(agents)

\* C28: when the child of a started agent exits by itself, the agent's
\* status eventually is stopped with exit_code equal to the child's return
\* code, and daemon_state.json holds that state; unless the daemon has ended
\* or the agent was removed before.
C28_ExitEventuallyRecorded ==
    \A id \in AgentIds :
        ExitedByItself(id) ~> (ExitRecorded(id) \/ ~daemon_up \/ id \notin DOMAIN agents)

\* C29: with skip_mr_creation set, no step of an iteration whose loaded
\* state has all_issues_closed starts a session, the loop's step that decides
\* on the session ends the loop, and no step selects the phase MR_CREATION.
C29_SkipMrCreationEndsRun ==
    [][config.skip_mr_creation =>
          /\ all_issues_closed(state) => pc' # "open"
          /\ (all_issues_closed(state) /\ pc = "decide" /\ pc' # "decide") => pc' = "final"
          /\ session_type' # MR_CREATION]_vars

\* A run with skip_mr_creation has ended, not by a stop, a rejection or
\* max_iterations, on a milestone with all issues closed that is not closed
\* itself.
C29_Witness ==
    /\ config.skip_mr_creation
    /\ pc = "final"
    /\ iteration >= 1
    /\ ~IsSet(stop_event)
    /\ config.max_iterations = None
    /\ checkpoint_log = EmptyLog
    /\ all_issues_closed(load(workspace_file, milestone_file, checkpoint_log))
    /\ ~load(workspace_file, milestone_file, checkpoint_log).milestone[1].milestone_closed

\* C30: no session is started while pause is asserted (the pause event is
\* cleared), wherever the loop was when pause was asserted.
C30_NoSessionWhilePaused ==
    [][(pc # "open" /\ pc' = "open") => ~IsCleared(pause_event)]_vars

\* The segment invokes the command.
Invokes(segment, cmd) ==
    \E i \in 1..Len(_extract_commands(segment)) : _extract_commands(segment)[i] = cmd

\* C31: when the filter allows a command string, every one of its segments
\* that invokes pkill passes the validation of pkill.
C31_EverySensitiveSegmentValidated ==
    (returned # None /\ returned[1] = "allow")
        => \A i \in 1..Len(_split_command_segments(call[1])) :
              Invokes(_split_command_segments(call[1])[i], <<"pkill">>)
                 => _validate_pkill_command(_split_command_segments(call[1])[i]) = "allow"

\* The arguments of the pkill segment: the tokens after the first that are
\* no flags.
PkillArgs(segment) ==
    LET NotFlag(token) == ~IsFlag(token)
    IN  SelectSeq(Tail(_safe_shlex_split(segment)[1]), NotFlag)

\* C32: a pkill segment is accepted if and only if the first token after
\* pkill that is no flag, reduced to its first word when it holds a space,
\* is an allowed process name.
C32_FirstNonFlagTokenDecides ==
    (/\ returned # None
     /\ _safe_shlex_split(call[1]) # None
     /\ _safe_shlex_split(call[1])[1] # <<>>
     /\ Head(_safe_shlex_split(call[1])[1]) = <<"pkill">>)
        => (returned[1] = "allow"
              <=> /\ PkillArgs(call[1]) # <<>>
                  /\ pkill_target(Head(PkillArgs(call[1]))) # None
                  /\ pkill_target(Head(PkillArgs(call[1])))[1] \in allowed_process_names)

\* The call names the run directory d by its hash, and d exists.
RunsAgainFor(d) ==
    /\ call # None
    /\ returned # None
    /\ d \in DOMAIN returned[1]
    /\ call[1].spec_hash = Some(d[2])
    /\ d[1] = (IF call[1].spec_slug = None THEN spec_filename_to_slug(SPEC_SOURCE)
               ELSE call[1].spec_slug[1])

\* C33: running the workspace initializer again for an existing run
\* directory leaves the auto_accept flag of its WorkspaceInfo as the
\* observer wrote it.
C33_InitializerKeepsAutoAccept ==
    [][\A d \in DOMAIN returned[1] :
          RunsAgainFor(d)
             => returned'[1][d].workspace_info.auto_accept
                   = returned[1][d].workspace_info.auto_accept]_vars

\* The milestone file of the mode the run directory was created in.
RunMilestoneDoc(run_dir) ==
    run_dir.milestone[IF run_dir.workspace_info.file_only_mode THEN FILE_MILESTONE_FILE
                      ELSE GITLAB_MILESTONE_FILE]

\* C40: running the workspace initializer again for an existing run
\* directory, in the mode of the run, leaves its checkpoint log and its
\* milestone document unchanged.
C40_InitializerKeepsLogAndMilestone ==
    [][\A d \in DOMAIN returned[1] :
          (RunsAgainFor(d)
             /\ call[1].file_only_mode = returned[1][d].workspace_info.file_only_mode)
             => /\ returned'[1][d].checkpoint_log = returned[1][d].checkpoint_log
                /\ RunMilestoneDoc(returned'[1][d]) = RunMilestoneDoc(returned[1][d])]_vars

\* The initializer has run again for a run directory in use: the workspace
\* info and the spec copy are rewritten, the recorded checkpoints and the
\* milestone are there.
C40_Witness ==
    /\ call # None
    /\ call[1].calls >= 1
    /\ \E d \in DOMAIN returned[1] :
          /\ call[1].spec_hash = Some(d[2])
          /\ ~call[1].file_only_mode
          /\ returned[1][d].app_spec = "spec"
          /\ ~returned[1][d].workspace_info.auto_accept
          /\ returned[1][d].checkpoint_log = "records"
          /\ RunMilestoneDoc(returned[1][d]) = Some("initialized")

\* The position of the character in the alphabet, from 0.
Base62Value(c) == (CHOOSE k \in 1..Len(BASE62_ALPHABET) : BASE62_ALPHABET[k] = c) - 1

RECURSIVE times_plus(_, _, _, _)

\* num * factor + carry by limbs, from the least significant limb i down
\* to the first; what does not fit the limbs is dropped.
times_plus(num, factor, carry, i) ==
    IF i = 0
    THEN num
    ELSE LET cur == num[i] * factor + carry
         IN  times_plus([num EXCEPT ![i] = cur % Limb], factor, cur \div Limb, i - 1)

RECURSIVE base62_decode(_, _)

\* The integer a string of base62 characters stands for, as four limbs.
base62_decode(hash, num) ==
    IF hash = <<>>
    THEN num
    ELSE base62_decode(Tail(hash),
                       times_plus(num, Len(BASE62_ALPHABET), Base62Value(Head(hash)), Len(num)))

\* C34: the hash, decoded as base62, is the 8-byte integer of the digest
\* bytes followed by the random bytes, and two different values of the
\* random bytes give two different hashes.
C34_HashIsExactBase62 ==
    returned # None =>
        /\ base62_decode(returned[1].first, <<0, 0, 0, 0>>)
               = call[1].content_hash \o call[1].first
        /\ call[1].first # call[1].second => returned[1].first # returned[1].second

\* C35: in every state of the daemon an agent with status stopped, ready or
\* failed has no live child, and every live child is the process of an
\* agent with status running whose monitor task runs.
C35_LiveChildIsMonitored ==
    daemon_up =>
        /\ \A id \in DOMAIN agents :
              agents[id].status \in {STOPPED, READY, FAILED} => ~Live(agents[id].process)
        /\ \A id \in DOMAIN agents :
              Live(agents[id].process) => agents[id].status = RUNNING /\ id \in monitor_tasks
        /\ \A id \in AgentIds : ~HasLiveStray(orphans, waiting, id)

\* The start command failed at the spawn of the child (Popen raised), the
\* one error response of start that is neither a missing spec_file or
\* project_dir nor an agent that is already running.
SpawnFailedFor(agent_id) ==
    /\ agent_id \in DOMAIN agents'
    /\ agents'[agent_id].config = ValidConfig
    /\ agents'[agent_id].status = FAILED

\* C36: a start command answered with an error because spec_file or
\* project_dir is missing from the config, or because the agent is already
\* running, leaves the agents map as it was: no agent is added and no
\* agent's config or status changes.
C36_RejectedStartLeavesAgents ==
    [][\A agent_id \in AgentIds :
          (Responds("start", agent_id, "error") /\ ~SpawnFailedFor(agent_id))
             => agents' = agents]_vars

\* C37: every remove and every stop handled while another remove or stop of
\* the same running agent is in progress on another connection ends with a
\* response line, ok or error; the handler never ends with an exception
\* that closes the connection without a response.
C37_ConcurrentRemovesAnswered ==
    [][(/\ response' # None
        /\ response' # response
        /\ response'.cmd \in {"remove", "stop"})
          => response'.reply \in {"ok", "error"}]_vars

\* No agent of the registry ags has status starting.
NoneStarting(ags) == \A id \in DOMAIN ags : ags[id].status # STARTING

\* C38: no agent has status starting when a response line is sent or when
\* the state file is written, and right after a start of the daemon every
\* restored agent has status ready, stopped or failed.
C38_NeverStartingAtRest ==
    [][/\ (response' # None /\ response' # response /\ response'.reply # "closed")
             => NoneStarting(agents')
       /\ (state_file' # None /\ state_file' # state_file)
             => NoneStarting(state_file'[1])
       /\ (~daemon_up /\ daemon_up')
             => \A id \in DOMAIN agents' :
                   agents'[id].status \in {READY, STOPPED, FAILED}]_vars

\* The records of the log with checkpoint_id id.
RecordsWithId(id) ==
    {i \in 1..Len(AllRecords(checkpoint_log)) :
        AllRecords(checkpoint_log)[i].checkpoint_id = id}

\* The loop polls record id for a manual approval while the workspace
\* document says auto_accept: the loop entered the poll with auto_accept
\* off (line 306), so the observer has switched it on since.
PollingUnderAutoAccept(id) ==
    /\ pc = "poll"
    /\ checkpoint = Some(id)
    /\ workspace_file # None
    /\ workspace_file[1].auto_accept

\* Record id was approved by the dispatcher's auto-approval (whose result
\* always carries notes) and the loop has left the poll.
AutoApprovedAndProceeds(id) ==
    /\ pc # "poll"
    /\ \E i \in RecordsWithId(id) :
          /\ AllRecords(checkpoint_log)[i].status = APPROVED
          /\ AllRecords(checkpoint_log)[i].notes # None

\* A resolution was written for record id, or auto_accept is off again.
ObserverIntervened(id) ==
    \/ \E i \in RecordsWithId(id) : AllRecords(checkpoint_log)[i].completed
    \/ workspace_file = None
    \/ ~workspace_file[1].auto_accept

\* C39: when the observer switches auto_accept on while the loop polls a
\* pending checkpoint for a manual approval, the loop eventually
\* auto-approves that checkpoint and proceeds, with no human resolution
\* written (unless the observer resolves it or switches auto_accept off).
C39_AutoAcceptEndsThePoll ==
    \A id \in 1..MaxCkpt :
        PollingUnderAutoAccept(id) ~> (AutoApprovedAndProceeds(id) \/ ObserverIntervened(id))

====
